---- MODULE Spec2Model ----
(***************************************************************************)
(* Model of the artwork pipeline of capitalart/dream: the SKU allocator,   *)
(* the upload / analyse / mockup / finalise / delete operations over the   *)
(* three stage directories, the master registry file and the integrity     *)
(* validator.  File and folder names are sequences of one-character        *)
(* strings, so that formatting, pattern matching and prefix tests are      *)
(* computed the way the Python code computes them.                         *)
(***************************************************************************)
EXTENDS Integers, Sequences, FiniteSets, TLC

VARIABLES
    tracker,    \* the SKU tracker file: [state, last]
    issued,     \* history: the SKUs returned by get_next_sku, in call order
    dirs,       \* the directories that exist (a set of paths)
    files,      \* the files that exist: a function path -> content
    registry,   \* the master registry file: [state, data]
    templates,  \* the template directory: pixel-size class of each *.jpg, sorted
    lastOp,     \* the outcome of the last operation (what its caller sees)
    epoch,      \* history: how many SKUs had been issued when the tracker was last lost
    tmp,        \* the registry's temporary file: [state, data]
    writer,     \* a registry write in progress: [pc, target, data, before, crashed]
    session,    \* the user id the client's session cookie holds, "" when it holds none
    procs       \* the calls in progress, when calls are taken step by step: id -> locals

vars ==
    <<tracker, issued, dirs, files, registry, templates, lastOp, epoch, tmp, writer, session,
      procs>>

\* what no serialized operation touches: a write that ran to its end leaves no
\* temporary file
aux == <<epoch, tmp, writer, session, procs>>

----------------------------------------------------------------------------
(* Bounds of the model *)

MaxUploads == 2
MaxRegistered == 2
MaxCalls == 3
MaxAnalysed == 1
MaxMissing == 2

----------------------------------------------------------------------------
(* Characters and strings *)

UpperSeq == <<"A","B","C","D","E","F","G","H","I","J","K","L","M",
              "N","O","P","Q","R","S","T","U","V","W","X","Y","Z">>
LowerSeq == <<"a","b","c","d","e","f","g","h","i","j","k","l","m",
              "n","o","p","q","r","s","t","u","v","w","x","y","z">>
DigitSeq == <<"0","1","2","3","4","5","6","7","8","9">>

Range(s) == {s[i] : i \in 1..Len(s)}
UpperSet == Range(UpperSeq)
LowerSet == Range(LowerSeq)
DigitSet == Range(DigitSeq)
IsUpper(c) == c \in UpperSet
IsLower(c) == c \in LowerSet
IsDigit(c) == c \in DigitSet

\* str.lower() on one character
ToLower(c) ==
    IF IsUpper(c)
    THEN LowerSeq[CHOOSE i \in 1..Len(UpperSeq) : UpperSeq[i] = c]
    ELSE c

\* s[i:j] for 1-based inclusive bounds, empty when i > j
Slice(s, i, j) == [k \in 1..(j - i + 1) |-> s[i + k - 1]]

\* s.startswith(p)
StartsWith(s, p) == Len(p) <= Len(s) /\ Slice(s, 1, Len(p)) = p

\* s.endswith(p)
EndsWith(s, p) == Len(p) <= Len(s) /\ Slice(s, Len(s) - Len(p) + 1, Len(s)) = p

\* p in s (substring)
Contains(s, p) ==
    \E i \in 1..(Len(s) - Len(p) + 1) : Slice(s, i, i + Len(p) - 1) = p

\* s.replace(p, "") for a p that occurs at most once in s
RemoveFirst(s, p) ==
    IF Contains(s, p)
    THEN LET i == CHOOSE k \in 1..(Len(s) - Len(p) + 1) :
                      /\ Slice(s, k, k + Len(p) - 1) = p
                      /\ \A m \in 1..(k - 1) : Slice(s, m, m + Len(p) - 1) # p
         IN Slice(s, 1, i - 1) \o Slice(s, i + Len(p), Len(s))
    ELSE s

\* position of the last "." of a name, 0 when there is none
LastDot(name) ==
    IF \E i \in 1..Len(name) : name[i] = "."
    THEN CHOOSE i \in 1..Len(name) :
             name[i] = "." /\ \A k \in (i + 1)..Len(name) : name[k] # "."
    ELSE 0

\* Path(name).stem: the name without its last suffix
Stem(name) == IF LastDot(name) <= 1 THEN name ELSE Slice(name, 1, LastDot(name) - 1)

\* Path(name).suffix: the last suffix, with its dot
Suffix(name) == IF LastDot(name) <= 1 THEN <<>> ELSE Slice(name, LastDot(name), Len(name))

\* decimal digits of a natural number
RECURSIVE Digits(_)
Digits(n) ==
    IF n < 10 THEN <<DigitSeq[n + 1]>>
    ELSE Digits(n \div 10) \o <<DigitSeq[(n % 10) + 1]>>

\* format(n, "0{w}d")
ZeroPad(n, w) ==
    LET d == Digits(n)
    IN IF Len(d) >= w THEN d ELSE [i \in 1..(w - Len(d)) |-> "0"] \o d

\* f"{i:02}"
TwoDigits(i) == ZeroPad(i, 2)

----------------------------------------------------------------------------
(* Configuration (config.py) *)

SKU_PREFIX == <<"R","J","C">>
SKU_DIGITS == 5

\* one character of sanitize_slug: lowercase, anything but [a-z0-9-] becomes "-"
SanitizeChar(c) ==
    LET l == ToLower(c)
    IN IF IsLower(l) \/ IsDigit(l) \/ l = "-" THEN l ELSE "-"

\* str.strip("-")
RECURSIVE StripHyphens(_)
StripHyphens(s) ==
    IF s = <<>> THEN s
    ELSE IF Head(s) = "-" THEN StripHyphens(Tail(s))
    ELSE IF s[Len(s)] = "-" THEN StripHyphens(Slice(s, 1, Len(s) - 1))
    ELSE s

sanitize_slug(raw) == StripHyphens([i \in 1..Len(raw) |-> SanitizeChar(raw[i])])

\* A path is a root directory and the components below it.
P(root, rel) == [root |-> root, rel |-> rel]
NoPath == P("none", <<>>)

UNANALYSED_ARTWORK_DIR == P("unanalysed", <<>>)
PROCESSED_ARTWORK_DIR == P("processed", <<>>)
FINALISED_ARTWORK_DIR == P("finalised", <<>>)

\* base / name
Join(p, name) == P(p.root, Append(p.rel, name))

\* the absolute path string of each root; "sibling" is a directory beside the
\* unanalysed root whose name begins with the unanalysed root's name
ProjectStr == <<"/","d">>
ArtProcessingStr == ProjectStr \o <<"/","a","r","t","-","p","r","o","c","e","s","s","i","n","g">>
RootStr(root) ==
    CASE root = "project" -> ProjectStr
      [] root = "unanalysed" ->
            ArtProcessingStr \o <<"/","u","n","a","n","a","l","y","s","e","d">>
      [] root = "sibling" ->
            ArtProcessingStr \o <<"/","u","n","a","n","a","l","y","s","e","d","-","o","l","d">>
      [] root = "processed" ->
            ArtProcessingStr \o <<"/","p","r","o","c","e","s","s","e","d">>
      [] root = "finalised" ->
            ArtProcessingStr \o <<"/","f","i","n","a","l","i","s","e","d">>
      [] root = "outside" -> <<"/","t","m","p">>
      [] OTHER -> <<>>

\* str(path)
RECURSIVE JoinStr(_)
JoinStr(rel) == IF rel = <<>> THEN <<>> ELSE <<"/">> \o Head(rel) \o JoinStr(Tail(rel))
PathStr(p) == RootStr(p.root) \o JoinStr(p.rel)

S_jpg == <<".","j","p","g">>
S_json == <<".","j","s","o","n">>
S_THUMB == <<"-","T","H","U","M","B">>
S_ANALYSE == <<"-","A","N","A","L","Y","S","E">>
S_QC == <<"-","Q","C">>
S_MU == <<"-","M","U","-">>

processed_artwork_path(slug) == P("processed", <<slug, slug \o S_jpg>>)
processed_analysis_path(slug) ==
    P("processed", <<slug, slug \o <<"-","a","n","a","l","y","s","i","s">> \o S_json>>)
processed_openai_path(slug) ==
    P("processed", <<slug, slug \o <<"-","o","p","e","n","a","i">> \o S_jpg>>)
finalised_artwork_path(slug) == P("finalised", <<slug, slug \o S_jpg>>)
preview_path(slug) ==
    P("finalised", <<slug, slug \o <<"-","p","r","e","v","i","e","w">> \o S_jpg>>)
mockup_path(slug, i) == P("finalised", <<slug, slug \o S_MU \o TwoDigits(i) \o S_jpg>>)

----------------------------------------------------------------------------
(* The file system *)

Exists(p) == p \in dirs \/ p \in DOMAIN files

\* p is base or lies below base (by components)
Under(p, base) ==
    /\ p.root = base.root
    /\ Len(p.rel) >= Len(base.rel)
    /\ Slice(p.rel, 1, Len(base.rel)) = base.rel

\* the content of a file: what it was made from
Content(kind, art, n) == [kind |-> kind, art |-> art, n |-> n]

\* f with the files of g written over it
Write(f, g) == [p \in DOMAIN f \cup DOMAIN g |-> IF p \in DOMAIN g THEN g[p] ELSE f[p]]

\* f without the paths of ps
Remove(f, ps) == [p \in DOMAIN f \ ps |-> f[p]]

One(p, c) == [q \in {p} |-> c]

NoFiles == [p \in {} |-> Content("", 0, 0)]

\* the names of the folders directly below a root
Folders(root) == {d.rel[1] : d \in {x \in dirs : x.root = root /\ Len(x.rel) = 1}}

----------------------------------------------------------------------------
(* services/sku_service.py *)

\* a get_next_sku that never reads the tracker
ReadLast_Never(t) == 0

\* the integer get_next_sku reads: the tracker's "last", 0 if absent or unreadable
ReadLast(t) == IF t.state = "ok" THEN t.last ELSE 0

\* a get_next_sku that hands out the number it read
next_num_Last(t) == ReadLast(t)

\* next_num = last + 1
next_num(t) == ReadLast(t) + 1

\* f"{SKU_PREFIX}-{next_num:0{SKU_DIGITS}d}"
FormatSku(n) == SKU_PREFIX \o <<"-">> \o ZeroPad(n, SKU_DIGITS)

\* what get_next_sku returns, and the tracker it leaves
get_next_sku(t) == FormatSku(next_num(t))

\* a get_next_sku that writes back the number it read
TrackerWritten_Stale(t) == [state |-> "ok", last |-> ReadLast(t)]

TrackerWritten(t) == [state |-> "ok", last |-> next_num(t)]

----------------------------------------------------------------------------
(* The outcome of an operation *)

Outcome(op, slug, ok, err, path, ret) ==
    [op |-> op, slug |-> slug, ok |-> ok, err |-> err, path |-> path, ret |-> ret]

----------------------------------------------------------------------------
(* routes/artwork_routes.py *)

ALLOWED_EXTENSIONS == {<<"j","p","g">>, <<"j","p","e","g">>, <<"p","n","g">>}

\* filename.rsplit(".", 1)[-1].lower()
ExtOf(filename) ==
    LET e == Slice(filename, LastDot(filename) + 1, Len(filename))
    IN [i \in 1..Len(e) |-> ToLower(e[i])]

\* _unique_slug: the counter the while loop stops at (0: the plain slug)
RECURSIVE UniqueCounter(_, _, _)
UniqueCounter(base, slug, counter) ==
    LET candidate == IF counter = 0 THEN Join(base, slug)
                     ELSE Join(base, slug \o <<"-">> \o Digits(counter))
    IN IF Exists(candidate) THEN UniqueCounter(base, slug, counter + 1) ELSE candidate

\* a helper that returns the plain slug whether or not it is taken
_unique_slug_Plain(base, slug) == Join(base, slug)

_unique_slug(base, slug) == UniqueCounter(base, slug, 0)

\* POST /upload with one file; readable: whether Pillow can decode it
upload_artwork(filename, readable) ==
    /\ IF ExtOf(filename) \notin ALLOWED_EXTENSIONS
       THEN /\ lastOp' = Outcome("upload", <<>>, FALSE, "invalid file type", NoPath, <<>>)
            /\ UNCHANGED <<tracker, issued, dirs, files, registry, templates>>
       ELSE LET slug == sanitize_slug(Stem(filename))
                target_dir == _unique_slug(UNANALYSED_ARTWORK_DIR, slug)
                sku == get_next_sku(tracker)
                art == Len(issued) + 1
                original_path == Join(target_dir, filename)
                thumb_path == Join(target_dir, sku \o S_THUMB \o S_jpg)
                analyse_path == Join(target_dir, sku \o S_ANALYSE \o S_jpg)
                qc_path == Join(target_dir, sku \o S_QC \o S_json)
                saved == Write(files, One(original_path, Content("original", art, 0)))
                name == target_dir.rel[1]
            IN /\ dirs' = dirs \cup {target_dir}
               /\ tracker' = TrackerWritten(tracker)
               /\ issued' = Append(issued, sku)
               /\ IF readable
                  THEN /\ files' =
                            Write(Write(Write(saved,
                                One(thumb_path, Content("thumb", art, 0))),
                                One(analyse_path, Content("analyse", art, 0))),
                                One(qc_path, Content("qc", art, 0)))
                       /\ lastOp' = Outcome("upload", name, TRUE, "", NoPath, sku)
                  ELSE /\ files' = saved
                       /\ lastOp' = Outcome("upload", name, FALSE, "cannot identify image",
                                            original_path, sku)
               /\ UNCHANGED <<registry, templates>>

----------------------------------------------------------------------------
(* The master registry file (MASTER_ARTWORK_PATHS_FILE) *)

NoRecords == [s \in {} |-> [image |-> NoPath]]

\* what a reader gets: the JSON object, {} when the file is absent or does not parse
ReadRegistry(r) == IF r.state = "ok" THEN r.data ELSE NoRecords

\* an update that keeps only the new record
Update_Replace(data, slug, rec) == [s \in {slug} |-> rec]

\* data.update(record)
Update(data, slug, rec) ==
    [s \in DOMAIN data \cup {slug} |-> IF s = slug THEN rec ELSE data[s]]

\* tmp.write(json.dumps(data)); tmp.replace(registry): the file after the rename
Replaced(data) == [state |-> "ok", data |-> data]

\* a file that does not exist, and one that was opened for writing and not finished
NoFile == [state |-> "absent", data |-> NoRecords]
Unfinished == [state |-> "corrupt", data |-> NoRecords]

\* a writer that opens the registry itself
with_suffix_tmp_Same(name) == name

\* MASTER_ARTWORK_PATHS_FILE.with_suffix(".tmp"): the file the new content is written to
with_suffix_tmp(name) == "tmp"

\* rec.get(key, "") as a string
GetStr(rec, key) == IF key \in DOMAIN rec THEN PathStr(rec[key]) ELSE <<>>

\* a lookup whose default is not the empty string
GetField_NoDefault(m, key) == IF key \in DOMAIN m THEN m[key] ELSE "None"

\* dict.get(key, "") of a metadata field
GetField(m, key) == IF key \in DOMAIN m THEN m[key] ELSE ""

----------------------------------------------------------------------------
(* routes/home_routes.py *)

\* the keys delete purges: the slug itself and every record with /<slug>/ in a path
ToDelete(reg, slug) ==
    { key \in DOMAIN reg :
        LET cur == GetStr(reg[key], "image") \o <<"|">> \o GetStr(reg[key], "analysis")
                   \o <<"|">> \o GetStr(reg[key], "openai")
        IN Contains(cur, <<"/">> \o slug \o <<"/">>) \/ key = slug }

\* json.loads(path.read_text(encoding="utf-8")) under "except json.JSONDecodeError":
\* a file that is not UTF-8 text raises UnicodeDecodeError, which that clause lets through
ReadRaises(r) == r.state = "undecodable"

\* POST /artworks/delete-unanalysed/<slug>
delete_unanalysed_artwork(raw) ==
    LET slug == sanitize_slug(raw)
        folder == Join(UNANALYSED_ARTWORK_DIR, slug)
        removed == Exists(folder)
        reg == ReadRegistry(registry)
        kept == [k \in DOMAIN reg \ ToDelete(reg, slug) |-> reg[k]]
    IN /\ IF removed
          THEN /\ dirs' = {d \in dirs : ~Under(d, folder)}
               /\ files' = Remove(files, {f \in DOMAIN files : Under(f, folder)})
          ELSE UNCHANGED <<dirs, files>>
       /\ IF ReadRaises(registry)
          THEN \* the outer "except Exception" reports the failure
               /\ registry' = registry
               /\ lastOp' = Outcome("delete", slug, FALSE, "Delete failed", NoPath, <<>>)
          ELSE /\ registry' = Replaced(kept)
               /\ lastOp' = Outcome("delete", slug, TRUE,
                                    IF removed THEN "Deleted" ELSE "Nothing to delete",
                                    NoPath, <<>>)
       /\ UNCHANGED <<tracker, issued, templates>>

----------------------------------------------------------------------------
(* services/artwork_analysis_service.py *)

\* a fallback that takes a response without image data for an analysis
AnalysisProvider_AnyResponse(ai) == IF ai \in {"ok", "no_image"} THEN "openai" ELSE "mock"

\* _perform_analysis: the analysis JSON's provider and the bytes of the auxiliary
\* image; ai is what the external provider does
AnalysisProvider(ai) == IF ai = "ok" THEN "openai" ELSE "mock"
AnalysisBytes(ai, source) == IF ai = "ok" THEN Content("ai", source.art, 0) ELSE source

\* the record analyze writes for its slug
AnalysisRecord(image, analysis, openai_img) ==
    [image |-> image, analysis |-> analysis, openai |-> openai_img]

\* the scope test of analyze_artwork: str(src_path).startswith(str(root_real))
InScope(src_path) == StartsWith(PathStr(src_path), PathStr(UNANALYSED_ARTWORK_DIR))

\* an existence test that lets every source through
SourceMissing_Never(src_path) == FALSE

\* if not src_path.exists()
SourceMissing(src_path) == ~Exists(src_path)

\* a move that leaves the source where it was
Move_Copy(f, src, dst) == Write(f, One(dst, f[src]))

\* shutil.move(src, dst) of a file
Move(f, src, dst) == Write(Remove(f, {src}), One(dst, f[src]))

\* analyze_artwork(rel_path, src_path, ...): rel_path as its parts; ai: the provider's
\* behaviour; aux_ok: whether the auxiliary image could be written
analyze_artwork(rel, src_path, ai, aux_ok) ==
    IF SourceMissing(src_path)
    THEN /\ lastOp' = Outcome("analyze", <<>>, FALSE, "FileNotFoundError", src_path, <<>>)
         /\ UNCHANGED <<tracker, issued, dirs, files, registry, templates>>
    ELSE IF ~InScope(src_path)
    THEN /\ lastOp' = Outcome("analyze", <<>>, FALSE, "FileNotFoundError", src_path, <<>>)
         /\ UNCHANGED <<tracker, issued, dirs, files, registry, templates>>
    ELSE IF <<".", ".">> \in Range(rel)
    THEN /\ lastOp' = Outcome("analyze", <<>>, FALSE, "FileNotFoundError", src_path, <<>>)
         /\ UNCHANGED <<tracker, issued, dirs, files, registry, templates>>
    ELSE LET slug == sanitize_slug(rel[1])
             processed_image == processed_artwork_path(slug)
             analysis_path == processed_analysis_path(slug)
             openai_img == processed_openai_path(slug)
             source == files[src_path]
             moved == Move(Remove(files, {processed_image}), src_path, processed_image)
             analysed == Write(moved, One(analysis_path,
                                  Content(AnalysisProvider(ai), source.art, 0)))
             written == IF aux_ok
                        THEN Write(analysed, One(openai_img, AnalysisBytes(ai, source)))
                        ELSE analysed
         IN IF src_path \notin DOMAIN files
            THEN \* shutil.move raises, after the mkdir and the unlink
                 /\ dirs' = dirs \cup {Join(PROCESSED_ARTWORK_DIR, slug)}
                 /\ files' = Remove(files, {processed_image})
                 /\ lastOp' = Outcome("analyze", slug, FALSE, "FileNotFoundError",
                                      src_path, <<>>)
                 /\ UNCHANGED <<tracker, issued, registry, templates>>
            ELSE /\ dirs' = dirs \cup {Join(PROCESSED_ARTWORK_DIR, slug)}
                 /\ files' = written
                 /\ registry' = Replaced(Update(ReadRegistry(registry), slug,
                                    AnalysisRecord(processed_image, analysis_path, openai_img)))
                 /\ lastOp' = Outcome("analyze", slug, TRUE, "", src_path, slug)
                 /\ UNCHANGED <<tracker, issued, templates>>

----------------------------------------------------------------------------
(* scripts/generate_composites.py *)

NumMockups == 9

\* the pixel-size class of every artwork image; a template of another class mismatches
ArtSize == 1

\* every template, without the [:9]
FirstTemplates_All == 1..Len(templates)

\* sorted(MOCKUPS_DIR.glob("*.jpg"))[:9]
FirstTemplates == 1..(IF Len(templates) < NumMockups THEN Len(templates) ELSE NumMockups)

\* a loop that ends at the first template of another size
SlotsWritten_UntilMismatch(slug) ==
    { idx \in FirstTemplates : /\ ~Exists(mockup_path(slug, idx))
                               /\ \A j \in 1..idx : templates[j] = ArtSize }

\* the slots generate writes: no file there yet, and the template has the artwork's size
SlotsWritten(slug) ==
    { idx \in FirstTemplates : ~Exists(mockup_path(slug, idx)) /\ templates[idx] = ArtSize }

generate(raw) ==
    LET slug == sanitize_slug(raw)
        source == processed_artwork_path(slug)
    IN /\ lastOp' = Outcome("generate", slug, Exists(source), "", NoPath, <<>>)
       /\ IF ~Exists(source)
          THEN UNCHANGED <<dirs, files>>
          ELSE /\ dirs' = dirs \cup {Join(FINALISED_ARTWORK_DIR, slug)}
               /\ files' = Write(files,
                    [p \in {mockup_path(slug, idx) : idx \in SlotsWritten(slug)} |->
                        Content("mockup", files[source].art,
                                CHOOSE idx \in SlotsWritten(slug) : mockup_path(slug, idx) = p)])
       /\ UNCHANGED <<tracker, issued, registry, templates>>

----------------------------------------------------------------------------
(* services/finalise_service.py *)

\* a check of the processed image alone
FirstMissing_MainOnly(slug) ==
    IF ~Exists(processed_artwork_path(slug)) THEN processed_artwork_path(slug) ELSE NoPath

\* the first required file that is missing, NoPath when none is
FirstMissing(slug) ==
    IF ~Exists(processed_artwork_path(slug)) THEN processed_artwork_path(slug)
    ELSE IF \E i \in 1..NumMockups : ~Exists(mockup_path(slug, i))
    THEN mockup_path(slug, CHOOSE i \in 1..NumMockups :
            /\ ~Exists(mockup_path(slug, i))
            /\ \A k \in 1..(i - 1) : Exists(mockup_path(slug, k)))
    ELSE NoPath

\* the record finalise writes for its slug
FinalRecord(slug, final_path, preview, metadata) ==
    [image |-> final_path,
     preview |-> preview,
     mockups |-> [i \in 1..NumMockups |-> mockup_path(slug, i)],
     title |-> GetField(metadata, "title"),
     description |-> GetField(metadata, "description"),
     primary_colour |-> GetField(metadata, "primary_colour"),
     secondary_colour |-> GetField(metadata, "secondary_colour"),
     status |-> "finalised"]

finalise_artwork(raw, metadata) ==
    LET slug == sanitize_slug(raw)
        source == processed_artwork_path(slug)
        final_path == finalised_artwork_path(slug)
        preview == preview_path(slug)
        copied == Write(files, One(final_path, files[source]))
        missing == FirstMissing(slug)
    IN IF missing # NoPath
       THEN /\ lastOp' = Outcome("finalise", slug, FALSE, "FileNotFoundError", missing, <<>>)
            /\ UNCHANGED <<tracker, issued, dirs, files, registry, templates>>
       ELSE /\ dirs' = dirs \cup {Join(FINALISED_ARTWORK_DIR, slug)}
            /\ files' = IF Exists(preview) THEN copied
                        ELSE Write(copied, One(preview, Content("preview", files[source].art, 0)))
            /\ registry' = Replaced(Update(ReadRegistry(registry), slug,
                               FinalRecord(slug, final_path, preview, metadata)))
            /\ lastOp' = Outcome("finalise", slug, TRUE, "", NoPath, <<>>)
            /\ UNCHANGED <<tracker, issued, templates>>

----------------------------------------------------------------------------
(* routes/utils.py *)

register_artwork_in_master(slug, path) ==
    /\ IF ReadRaises(registry)
       THEN /\ registry' = registry
            /\ lastOp' = Outcome("register", slug, FALSE, "UnicodeDecodeError", path, <<>>)
       ELSE /\ registry' = Replaced(Update(ReadRegistry(registry), slug, [image |-> path]))
            /\ lastOp' = Outcome("register", slug, TRUE, "", path, <<>>)
    /\ UNCHANGED <<tracker, issued, dirs, files, templates>>

----------------------------------------------------------------------------
(* tools/validate_sku_integrity.py *)

S_FINAL == <<"-","F","I","N","A","L">>
S_THUMBS == <<"T","H","U","M","B","S">>
S_env == <<".","e","n","v">>

\* the first position from i on that holds no upper-case letter, and no digit
RECURSIVE SkipUpper(_, _)
SkipUpper(s, i) == IF i <= Len(s) /\ IsUpper(s[i]) THEN SkipUpper(s, i + 1) ELSE i
RECURSIVE SkipDigit(_, _)
SkipDigit(s, i) == IF i <= Len(s) /\ IsDigit(s[i]) THEN SkipDigit(s, i + 1) ELSE i

\* SKU_PATTERN = [A-Z]+-\d+ searched from position i on: the leftmost match, each
\* part as long as it can be; a run of letters that no "-" and digit follow holds
\* no start of a match
RECURSIVE SKU_PATTERN(_, _)
SKU_PATTERN(s, i) ==
    IF i > Len(s) THEN <<>>
    ELSE IF ~IsUpper(s[i]) THEN SKU_PATTERN(s, i + 1)
    ELSE LET j == SkipUpper(s, i)
         IN IF j + 1 <= Len(s) /\ s[j] = "-" /\ IsDigit(s[j + 1])
            THEN Slice(s, i, SkipDigit(s, j + 1) - 1)
            ELSE SKU_PATTERN(s, j)

\* SKU_PATTERN.search(name): the match, the empty string for None
_extract_sku(name) == SKU_PATTERN(name, 1)

\* s.replace(p, "")
RECURSIVE RemoveAll(_, _)
RemoveAll(s, p) == IF Contains(s, p) THEN RemoveAll(RemoveFirst(s, p), p) ELSE s

\* s.lower()
Lower(s) == [i \in 1..Len(s) |-> ToLower(s[i])]

\* p.name, and folder.iterdir()
Name(p) == p.rel[Len(p.rel)]
Children(folder) ==
    {p \in dirs \cup DOMAIN files : Len(p.rel) = Len(folder.rel) + 1 /\ Under(p, folder)}

\* the sequences that list a finite set once each: the orders iterdir may produce
Orders(S) == {o \in [1..Cardinality(S) -> S] : Range(o) = S}

\* one error string, by its parts
Err(what, item, n, sku, slug) ==
    [what |-> what, item |-> item, n |-> n, sku |-> sku, slug |-> slug]

ImageSuffixes == {S_jpg, <<".","j","p","e","g">>, <<".","p","n","g">>}

\* the body of check_unanalysed's loop for one folder; the trees of this model hold
\* at most one QC file in a folder, so the first match of the glob is that file
UnanalysedFolder(folder) ==
    LET kids == Children(folder)
        qcs == {p \in kids : EndsWith(Name(p), S_QC \o S_json)}
    IN IF qcs = {} THEN <<Err("Missing QC JSON in", "", 0, <<>>, Name(folder))>>
       ELSE LET qc == CHOOSE p \in qcs : TRUE
                found == _extract_sku(Name(qc))
                sku == IF found # <<>> THEN found ELSE Name(folder)
                stem == RemoveAll(Stem(Name(qc)), S_QC)
                thumb == Join(folder, stem \o S_THUMB \o S_jpg)
                analyse == Join(folder, stem \o S_ANALYSE \o S_jpg)
                originals == {p \in kids : /\ p \in DOMAIN files
                                           /\ Lower(Suffix(Name(p))) \in ImageSuffixes
                                           /\ ~Contains(Name(p), sku)}
            IN (IF originals = {} THEN <<Err("Missing", "original", 0, sku, <<>>)>> ELSE <<>>)
               \o (IF ~Exists(thumb) THEN <<Err("Missing", "THUMB", 0, sku, <<>>)>> ELSE <<>>)
               \o (IF ~Exists(analyse) THEN <<Err("Missing", "ANALYSE", 0, sku, <<>>)>> ELSE <<>>)

\* the errors of the folders in the order they are visited
RECURSIVE UnanalysedFolders(_)
UnanalysedFolders(order) ==
    IF order = <<>> THEN <<>>
    ELSE UnanalysedFolder(Head(order)) \o UnanalysedFolders(Tail(order))

\* the sub-folders a check visits
SubFolders(base) == {p \in Children(base) : p \in dirs}

check_unanalysed(base, order) == IF ~Exists(base) THEN <<>> ELSE UnanalysedFolders(order)

\* the SKUs the names of a folder's items hold: the first item with a match decides
FoundSkus(folder) == {_extract_sku(Name(p)) : p \in Children(folder)} \ {<<>>}

\* a loop over the required files that stops at the first one missing
RECURSIVE RequiredErrors_FirstOnly(_, _, _)
RequiredErrors_FirstOnly(required, sku, slug) ==
    IF required = <<>> THEN <<>>
    ELSE IF ~Exists(Head(required).path)
         THEN <<Err("Missing", Head(required).desc, 0, sku, slug)>>
         ELSE RequiredErrors_FirstOnly(Tail(required), sku, slug)

\* for path, desc in required: one error for each path that does not exist
RECURSIVE RequiredErrors(_, _, _)
RequiredErrors(required, sku, slug) ==
    IF required = <<>> THEN <<>>
    ELSE (IF ~Exists(Head(required).path)
          THEN <<Err("Missing", Head(required).desc, 0, sku, slug)>> ELSE <<>>)
         \o RequiredErrors(Tail(required), sku, slug)

\* f"{slug}-{sku}-MU-{i:02}.jpg" and its thumbnail's name
MockName(slug, sku, i) == slug \o <<"-">> \o sku \o S_MU \o TwoDigits(i) \o S_jpg
MockThumbName(slug, sku, i) == slug \o <<"-">> \o sku \o S_MU \o TwoDigits(i) \o S_THUMB \o S_jpg

\* for i in range(1, 10): the mockup, then its thumbnail
RECURSIVE MockupErrors(_, _, _)
MockupErrors(folder, sku, i) ==
    IF i > 9 THEN <<>>
    ELSE (IF ~Exists(Join(folder, MockName(Name(folder), sku, i)))
          THEN <<Err("Missing", "mockup", i, sku, Name(folder))>> ELSE <<>>)
         \o (IF ~Exists(Join(Join(folder, S_THUMBS), MockThumbName(Name(folder), sku, i)))
             THEN <<Err("Missing", "mockup thumb", i, sku, Name(folder))>> ELSE <<>>)
         \o MockupErrors(folder, sku, i + 1)

\* dir.glob(prefix + "*" + suffix)
Glob(dir, prefix, suffix) ==
    {p \in Children(dir) : /\ Len(Name(p)) >= Len(prefix) + Len(suffix)
                           /\ StartsWith(Name(p), prefix)
                           /\ EndsWith(Name(p), suffix)}

\* the body of check_processed's loop for a folder in which the SKU sku was found
ProcessedFolder(folder, sku) ==
    LET slug == Name(folder)
        base == slug \o <<"-">> \o sku
        thumb_dir == Join(folder, S_THUMBS)
        required ==
            << [path |-> Join(folder, base \o S_jpg), desc |-> "Main"],
               [path |-> Join(folder, base \o S_THUMB \o S_jpg), desc |-> "THUMB"],
               [path |-> Join(folder, base \o S_ANALYSE \o S_jpg), desc |-> "ANALYSE"],
               [path |-> Join(folder, sku \o S_QC \o S_json), desc |-> "QC JSON"],
               [path |-> Join(folder, sku \o S_FINAL \o S_json), desc |-> "Final JSON"] >>
        mocks == Glob(folder, base \o S_MU, S_jpg)
        thumbs == IF Exists(thumb_dir)
                  THEN Glob(thumb_dir, base \o S_MU, S_THUMB \o S_jpg) ELSE {}
    IN (IF ~Exists(thumb_dir)
        THEN <<Err("Missing", "THUMBS folder", 0, sku, slug)>> ELSE <<>>)
       \o RequiredErrors(required, sku, slug)
       \o (IF Cardinality(mocks) # 9
           THEN <<Err("Expected 9", "mockups", 0, sku, slug)>> ELSE <<>>)
       \o MockupErrors(folder, sku, 1)
       \o (IF Cardinality(thumbs) # 9
           THEN <<Err("Expected 9", "mockup thumbs", 0, sku, slug)>> ELSE <<>>)

\* the errors of the folders in the order they are visited; pick[folder] is the SKU
\* of the first item of the folder that holds one, empty when no item holds one
RECURSIVE ProcessedFolders(_, _)
ProcessedFolders(order, pick) ==
    IF order = <<>> THEN <<>>
    ELSE (IF pick[Head(order)] = <<>>
          THEN <<Err("No SKU found in folder", "", 0, <<>>, Name(Head(order)))>>
          ELSE ProcessedFolder(Head(order), pick[Head(order)]))
         \o ProcessedFolders(Tail(order), pick)

check_processed(base, order, pick) ==
    IF ~Exists(base) THEN <<>> ELSE ProcessedFolders(order, pick)

\* the project marker validate requires at the root
MarkerPath == P("project", <<S_env>>)

\* a validate that reports the processed units before the unanalysed ones
CollectErrors_ProcessedFirst(marker, unanalysed, processed) ==
    marker \o processed \o unanalysed

\* errors = [marker error]; errors += check_unanalysed(...) + check_processed(...)
CollectErrors(marker, unanalysed, processed) == marker \o unanalysed \o processed

\* validate(root): the unanalysed and the processed directories are the stage roots
validate(uorder, porder, pick) ==
    LET errors == CollectErrors(
                      IF ~Exists(MarkerPath)
                      THEN <<Err("Missing .env file", "", 0, <<>>, <<>>)>> ELSE <<>>,
                      check_unanalysed(UNANALYSED_ARTWORK_DIR, uorder),
                      check_processed(PROCESSED_ARTWORK_DIR, porder, pick))
    IN /\ lastOp' = Outcome("validate", <<>>, errors = <<>>, "", NoPath, errors)
       /\ UNCHANGED <<tracker, issued, dirs, files, registry, templates>>

----------------------------------------------------------------------------
(* The environment: what the operations are called with *)

S_x == <<"x">>
S_ghost == <<"g","h","o","s","t">>
ANALYSE_jpg == S_ANALYSE \o S_jpg

\* the names an upload may carry (after secure_filename): two with the same slug,
\* and one of a type that is not allowed
ArtJpg == <<"a","r","t",".","j","p","g">>
ArtPng == <<"A","r","t",".","p","n","g">>
XGif == <<"x",".","g","i","f">>

\* files that exist outside the unanalysed root: in a sibling directory whose name
\* begins with the root's name, and elsewhere
SiblingFile == P("sibling", <<S_x, S_x \o ANALYSE_jpg>>)
OutsideFile == P("outside", <<S_x \o S_jpg>>)
ForeignFiles ==
    Write(One(SiblingFile, Content("foreign", 0, 0)), One(OutsideFile, Content("foreign", 0, 0)))

AllMatch(n) == [i \in 1..n |-> ArtSize]
Mismatch(n, bad) == [i \in 1..n |-> IF i \in bad THEN ArtSize + 1 ELSE ArtSize]

\* the template directories the pipeline runs with: nine or ten templates of the
\* artworks' size, and nine with two of another size
TemplateSets ==
    { AllMatch(NumMockups), AllMatch(NumMockups + 1), Mismatch(NumMockups, {2, 5}) }

\* the state after construction: empty stage roots, no tracker, no registry
Start(f, t) ==
    /\ tracker = [state |-> "absent", last |-> 0]
    /\ issued = <<>>
    /\ epoch = 0
    /\ dirs = {UNANALYSED_ARTWORK_DIR, PROCESSED_ARTWORK_DIR, FINALISED_ARTWORK_DIR}
    /\ files = f
    /\ registry = [state |-> "absent", data |-> NoRecords]
    /\ templates = t
    /\ lastOp = Outcome("none", <<>>, TRUE, "", NoPath, <<>>)
    /\ tmp = NoFile
    /\ writer = [pc |-> "idle", target |-> "tmp", data |-> NoRecords,
                 before |-> [state |-> "absent", data |-> NoRecords], crashed |-> FALSE]
    /\ session = ""
    /\ procs = <<>>

\* the slugs a request may name: the folders of the stage roots, and one that is unknown
SlugInputs == Folders("unanalysed") \cup Folders("processed") \cup {S_ghost}

\* the (rel_path, src_path) pairs analyze may be called with: an ANALYSE image below
\* the unanalysed root, a path that does not exist, and the files outside the root
AnalyseImages ==
    { g \in DOMAIN files : g.root = "unanalysed" /\ EndsWith(g.rel[Len(g.rel)], ANALYSE_jpg) }
InsideInputs ==
    { <<f.rel, f>> : f \in AnalyseImages }
    \cup { <<<<S_ghost, S_ghost \o ANALYSE_jpg>>,
             P("unanalysed", <<S_ghost, S_ghost \o ANALYSE_jpg>>)>> }
\* the request of the last analysis, sent again
RepeatInputs ==
    IF lastOp.op = "analyze" /\ lastOp.path.root = "unanalysed"
    THEN {<<lastOp.path.rel, lastOp.path>>} ELSE {}
OutsideInputs ==
    { <<<<S_x, S_x \o ANALYSE_jpg>>, SiblingFile>>,
      <<<<S_x, S_x \o S_jpg>>, OutsideFile>> }

FullMetadata ==
    [title |-> "T", description |-> "D", primary_colour |-> "red", secondary_colour |-> "blue"]
Metadatas == {FullMetadata, [title |-> "T"]}

----------------------------------------------------------------------------
(* The stage transitions, one serialized operation at a time *)

Init == \E t \in {AllMatch(NumMockups), Mismatch(NumMockups, {2, 5})} : Start(NoFiles, t)

Upload ==
    /\ Len(issued) < MaxUploads
    /\ upload_artwork(ArtJpg, TRUE)
    /\ UNCHANGED aux

Analyze ==
    /\ \E in \in InsideInputs : analyze_artwork(in[1], in[2], "unconfigured", TRUE)
    /\ UNCHANGED aux

Generate ==
    /\ \E slug \in SlugInputs : generate(slug)
    /\ UNCHANGED aux

Finalise ==
    /\ \E slug \in SlugInputs : finalise_artwork(slug, FullMetadata)
    /\ UNCHANGED aux

Next == Upload \/ Analyze \/ Generate \/ Finalise

Spec == Init /\ [][Next]_vars

----------------------------------------------------------------------------
(* The registry under every operation that updates a record *)

RegistryInit == Start(NoFiles, AllMatch(NumMockups))

RegistryUpload ==
    /\ Len(issued) < MaxRegistered
    /\ upload_artwork(ArtJpg, TRUE)
    /\ UNCHANGED aux

RegistryFinalise ==
    /\ \E slug \in Folders("processed"), metadata \in Metadatas :
            finalise_artwork(slug, metadata)
    /\ UNCHANGED aux

Register ==
    /\ \E slug \in Folders("processed") :
            register_artwork_in_master(slug, processed_artwork_path(slug))
    /\ UNCHANGED aux

RegistryNext == RegistryUpload \/ Analyze \/ Generate \/ RegistryFinalise \/ Register

SpecRegistry == RegistryInit /\ [][RegistryNext]_vars

----------------------------------------------------------------------------
(* The SKU allocator under serialized uploads and deletions *)

SkuInit == Start(NoFiles, AllMatch(NumMockups))

SkuUpload ==
    /\ Len(issued) < MaxCalls
    /\ \E filename \in {ArtJpg, ArtPng, XGif}, readable \in BOOLEAN :
            upload_artwork(filename, readable)
    /\ UNCHANGED aux

SkuDelete ==
    /\ \E slug \in Folders("unanalysed") \cup {S_ghost} : delete_unanalysed_artwork(slug)
    /\ UNCHANGED aux

SkuNext == SkuUpload \/ SkuDelete

SpecSku == SkuInit /\ [][SkuNext]_vars

----------------------------------------------------------------------------
(* The SKU allocator when the tracker file is deleted or corrupted between calls *)

DeleteTracker ==
    /\ tracker.state # "absent"
    /\ tracker' = [state |-> "absent", last |-> 0]
    /\ epoch' = Len(issued)
    /\ UNCHANGED <<issued, dirs, files, registry, templates, lastOp, tmp, writer, session,
                    procs>>

CorruptTracker ==
    /\ tracker.state = "ok"
    /\ tracker' = [state |-> "corrupt", last |-> 0]
    /\ epoch' = Len(issued)
    /\ UNCHANGED <<issued, dirs, files, registry, templates, lastOp, tmp, writer, session,
                    procs>>

LossUpload ==
    /\ Len(issued) < MaxCalls
    /\ \E filename \in {ArtJpg, ArtPng} : upload_artwork(filename, TRUE)
    /\ UNCHANGED aux

LossNext == LossUpload \/ SkuDelete \/ DeleteTracker \/ CorruptTracker

SpecLoss == SkuInit /\ [][LossNext]_vars

----------------------------------------------------------------------------
(* analyze_artwork under every input: paths inside and outside the root, every
   behaviour of the provider, and a failing write of the auxiliary image *)

AnalyseInit == Start(ForeignFiles, AllMatch(NumMockups))

AnalyseUpload ==
    /\ Len(issued) < MaxAnalysed
    /\ \E filename \in {ArtJpg, ArtPng} : upload_artwork(filename, TRUE)
    /\ UNCHANGED aux

AnalyseAny ==
    /\ \E in \in InsideInputs \cup RepeatInputs \cup OutsideInputs,
          ai \in {"unconfigured", "ok", "raises", "no_image"}, aux_ok \in BOOLEAN :
            analyze_artwork(in[1], in[2], ai, aux_ok)
    /\ UNCHANGED aux

AnalyseNext == AnalyseUpload \/ AnalyseAny

SpecAnalyse == AnalyseInit /\ [][AnalyseNext]_vars

----------------------------------------------------------------------------
(* The pipeline when the tracker or the registry is damaged between operations *)

\* what a damaged JSON file may hold: text that does not parse (a truncated write),
\* or bytes that are not UTF-8 text
DamageKinds == {"corrupt", "undecodable"}

CorruptRegistry ==
    /\ registry.state = "ok"
    /\ \E kind \in DamageKinds : registry' = [state |-> kind, data |-> NoRecords]
    /\ UNCHANGED <<tracker, issued, dirs, files, templates, lastOp, epoch, tmp, writer,
                    session, procs>>

CorruptDelete ==
    /\ \E slug \in Folders("unanalysed") \cup Folders("processed") :
            delete_unanalysed_artwork(slug)
    /\ UNCHANGED aux

CorruptFinalise ==
    /\ \E slug \in Folders("processed"), metadata \in Metadatas :
            finalise_artwork(slug, metadata)
    /\ UNCHANGED aux

CorruptNext ==
    \/ Upload \/ Analyze \/ Generate \/ CorruptFinalise \/ CorruptDelete
    \/ CorruptTracker \/ CorruptRegistry

SpecCorrupt == Start(NoFiles, AllMatch(NumMockups)) /\ [][CorruptNext]_vars

----------------------------------------------------------------------------
(* app.py: the login gate in front of the routes *)

USERS == [robbie |-> "Kanga123!", backup |-> "DreamArt@2025"]

\* current_user.is_authenticated: load_user knows the id the session holds
is_authenticated == session \in DOMAIN USERS

\* the response that sends the client to the login page; the view does not run
RedirectToLogin(op) ==
    /\ lastOp' = Outcome(op, <<>>, FALSE, "redirect to login", NoPath, <<>>)
    /\ UNCHANGED <<tracker, issued, dirs, files, registry, templates, session>>

\* a gate that lets every request through
require_login_Open(endpoint, path, op, view) == view

\* @app.before_request require_login, in front of the view of the endpoint
require_login(endpoint, path, op, view) ==
    IF endpoint \in {"login", "static"} \/ path = "/favicon.ico" THEN view
    ELSE IF ~is_authenticated THEN RedirectToLogin(op)
    ELSE view

\* @login_required on a view
login_required(op, view) == IF is_authenticated THEN view ELSE RedirectToLogin(op)

\* a view that reads and changes no file
Served(op) ==
    /\ lastOp' = Outcome(op, <<>>, TRUE, "", NoPath, <<>>)
    /\ UNCHANGED <<tracker, issued, dirs, files, registry, templates>>

\* /login
login(method, username, password) ==
    IF method = "POST" /\ username \in DOMAIN USERS /\ USERS[username] = password
    THEN /\ session' = username
         /\ lastOp' = Outcome("login", <<>>, TRUE, "redirect to home", NoPath, <<>>)
         /\ UNCHANGED <<tracker, issued, dirs, files, registry, templates>>
    ELSE /\ session' = session
         /\ lastOp' = Outcome("login", <<>>, FALSE,
                              IF method = "POST" THEN "Invalid credentials" ELSE "",
                              NoPath, <<>>)
         /\ UNCHANGED <<tracker, issued, dirs, files, registry, templates>>

\* /logout
logout ==
    /\ session' = ""
    /\ lastOp' = Outcome("logout", <<>>, TRUE, "redirect to login", NoPath, <<>>)
    /\ UNCHANGED <<tracker, issued, dirs, files, registry, templates>>

\* routes/__init__.py, POST /mockups/<slug>
mockups(raw) ==
    LET slug == sanitize_slug(raw)
    IN /\ dirs' = dirs \cup {Join(FINALISED_ARTWORK_DIR, slug)}
       /\ lastOp' = Outcome("mockups", slug, TRUE, "", NoPath, <<>>)
       /\ UNCHANGED <<tracker, issued, files, registry, templates>>

----------------------------------------------------------------------------
(* Requests of one client, logged in or not *)

background == <<epoch, tmp, writer, procs>>

\* the credentials a client posts: a user's own, a wrong password, an unknown user
Credentials == {<<"robbie", "Kanga123!">>, <<"robbie", "DreamArt@2025">>,
                <<"nobody", "Kanga123!">>}

LoginRequest ==
    /\ \E method \in {"GET", "POST"}, c \in Credentials :
            require_login("login", "/login", "login", login(method, c[1], c[2]))
    /\ UNCHANGED background

LogoutRequest ==
    /\ require_login("logout", "/logout", "logout", login_required("logout", logout))
    /\ UNCHANGED background

StaticRequest ==
    /\ \E r \in {<<"static", "/static/app.css">>, <<"none", "/favicon.ico">>} :
            require_login(r[1], r[2], "static", Served("static"))
    /\ UNCHANGED aux

HomeRequest ==
    /\ require_login("home.home", "/home", "home", login_required("home", Served("home")))
    /\ UNCHANGED aux

UploadRequest ==
    /\ Len(issued) < MaxUploads
    /\ require_login("artwork.upload_artwork", "/upload", "upload",
                     login_required("upload", upload_artwork(ArtJpg, TRUE)))
    /\ UNCHANGED aux

AnalyzeRequest ==
    /\ \E in \in InsideInputs :
            require_login("analysis.analyze_route", "/analyze", "analyze",
                          analyze_artwork(in[1], in[2], "unconfigured", TRUE))
    /\ UNCHANGED aux

MockupsRequest ==
    /\ \E slug \in Folders("processed") \cup {S_ghost} :
            require_login("routes.mockups", "/mockups", "mockups", mockups(slug))
    /\ UNCHANGED aux

FinaliseRequest ==
    /\ \E slug \in Folders("processed") \cup {S_ghost} :
            require_login("finalise.finalise", "/finalise", "finalise",
                          finalise_artwork(slug, FullMetadata))
    /\ UNCHANGED aux

DeleteRequest ==
    /\ \E slug \in Folders("unanalysed") \cup {S_ghost} :
            require_login("home.delete_unanalysed_artwork", "/artworks/delete-unanalysed",
                          "delete", login_required("delete", delete_unanalysed_artwork(slug)))
    /\ UNCHANGED aux

LoginNext ==
    \/ LoginRequest \/ LogoutRequest \/ StaticRequest \/ HomeRequest \/ UploadRequest
    \/ AnalyzeRequest \/ MockupsRequest \/ FinaliseRequest \/ DeleteRequest

SpecLogin == Start(NoFiles, AllMatch(NumMockups)) /\ [][LoginNext]_vars

----------------------------------------------------------------------------
(* Mockup generation while artworks come, are analysed and are deleted again *)

MockupDelete ==
    /\ \E slug \in Folders("unanalysed") : delete_unanalysed_artwork(slug)
    /\ UNCHANGED aux

MockupInit == \E t \in TemplateSets : Start(NoFiles, t)

MockupNext == Upload \/ MockupDelete \/ Analyze \/ Generate

SpecMockups == MockupInit /\ [][MockupNext]_vars

----------------------------------------------------------------------------
(* The validator over trees that are complete or have lost some of their items *)

S_img == <<"i","m","g">>
S_slug == <<"s","l","u","g">>
UnitSku == FormatSku(1)
ProcessedSku == FormatSku(2)
UnitFolder == Join(UNANALYSED_ARTWORK_DIR, S_img)
ProcessedUnit == Join(PROCESSED_ARTWORK_DIR, S_slug)
ThumbsFolder == Join(ProcessedUnit, S_THUMBS)

\* the names an uploaded original may have: its own, or one that holds the SKU the
\* upload was given
Originals == {S_img \o S_jpg, UnitSku \o S_jpg}

\* the files of an unanalysed unit as upload_artwork leaves them
UnitFiles(original) ==
    { Join(UnitFolder, original),
      Join(UnitFolder, UnitSku \o S_THUMB \o S_jpg),
      Join(UnitFolder, UnitSku \o S_ANALYSE \o S_jpg),
      Join(UnitFolder, UnitSku \o S_QC \o S_json) }

\* the files of a processed unit in the layout the validator reads
ProcessedFiles ==
    { Join(ProcessedUnit, S_slug \o <<"-">> \o ProcessedSku \o S_jpg),
      Join(ProcessedUnit, S_slug \o <<"-">> \o ProcessedSku \o S_THUMB \o S_jpg),
      Join(ProcessedUnit, S_slug \o <<"-">> \o ProcessedSku \o S_ANALYSE \o S_jpg),
      Join(ProcessedUnit, ProcessedSku \o S_QC \o S_json),
      Join(ProcessedUnit, ProcessedSku \o S_FINAL \o S_json) }
    \cup {Join(ProcessedUnit, MockName(S_slug, ProcessedSku, i)) : i \in 1..9}
    \cup {Join(ThumbsFolder, MockThumbName(S_slug, ProcessedSku, i)) : i \in 1..9}

TreeFiles(original) == {MarkerPath} \cup UnitFiles(original) \cup ProcessedFiles
TreeDirs ==
    {UNANALYSED_ARTWORK_DIR, PROCESSED_ARTWORK_DIR, FINALISED_ARTWORK_DIR,
     UnitFolder, ProcessedUnit, ThumbsFolder}

\* a tenth mockup and a tenth mockup thumbnail
Strays ==
    { Join(ProcessedUnit, MockName(S_slug, ProcessedSku, 10)),
      Join(ThumbsFolder, MockThumbName(S_slug, ProcessedSku, 10)) }

\* the folder a path lies in
Parent(p) == P(p.root, Slice(p.rel, 1, Len(p.rel) - 1))

\* how far the tree is from the complete one: the items that are gone (a folder
\* counting for its content), the strays, and an original under its other name
Counted ==
    {MarkerPath} \cup ProcessedFiles
    \cup (UnitFiles(S_img \o S_jpg) \ {Join(UnitFolder, S_img \o S_jpg)})
Damage ==
    Cardinality({p \in Counted : ~Exists(p) /\ Exists(Parent(p))})
    + (IF Exists(Join(UnitFolder, S_img \o S_jpg)) THEN 0 ELSE 1)
    + Cardinality(TreeDirs \ dirs)
    + Cardinality(Strays \cap DOMAIN files)

\* the complete tree of one unanalysed and one processed unit
ValidateInit ==
    /\ files = [p \in TreeFiles(S_img \o S_jpg) |-> Content("file", 0, 0)]
    /\ dirs = TreeDirs
    /\ tracker = [state |-> "absent", last |-> 0]
    /\ issued = <<>>
    /\ epoch = 0
    /\ registry = [state |-> "absent", data |-> NoRecords]
    /\ templates = AllMatch(NumMockups)
    /\ lastOp = Outcome("none", <<>>, TRUE, "", NoPath, <<>>)
    /\ tmp = NoFile
    /\ writer = [pc |-> "idle", target |-> "tmp", data |-> NoRecords,
                 before |-> [state |-> "absent", data |-> NoRecords], crashed |-> FALSE]
    /\ session = ""
    /\ procs = <<>>

kept == <<tracker, issued, registry, templates, epoch, tmp, writer, session, procs>>

\* The tree is changed before it is validated: validate changes nothing, so a tree
\* changed after a validation is a tree changed before it.
CanEdit == lastOp.op # "validate" /\ Damage < MaxMissing
Edited(f, d) ==
    /\ files' = f
    /\ dirs' = d
    /\ lastOp' = Outcome("edit", <<>>, TRUE, "", NoPath, <<>>)
    /\ UNCHANGED kept

\* one file of the tree is lost
LoseFile ==
    /\ CanEdit
    /\ \E p \in DOMAIN files \ Strays : Edited(Remove(files, {p}), dirs)

\* the THUMBS folder is lost with what it holds
LoseThumbs ==
    /\ CanEdit
    /\ ThumbsFolder \in dirs
    /\ Edited(Remove(files, {p \in DOMAIN files : Under(p, ThumbsFolder)}),
              dirs \ {ThumbsFolder})

\* a tenth mockup or mockup thumbnail appears
AddStray ==
    /\ CanEdit
    /\ \E p \in Strays :
          /\ ~Exists(p) /\ Exists(Parent(p))
          /\ Edited(Write(files, One(p, Content("file", 0, 0))), dirs)

\* the original was uploaded under a name that holds the unit's SKU
RenameOriginal ==
    /\ CanEdit
    /\ Exists(Join(UnitFolder, S_img \o S_jpg))
    /\ Edited(Write(Remove(files, {Join(UnitFolder, S_img \o S_jpg)}),
                    One(Join(UnitFolder, UnitSku \o S_jpg), Content("file", 0, 0))), dirs)

\* validate(root), the folders visited in any order; a second run over the same
\* tree returns what the first returned
RunValidate ==
    /\ lastOp.op # "validate"
    /\ LET found == [d \in SubFolders(PROCESSED_ARTWORK_DIR) |-> FoundSkus(d)]
       IN \E uorder \in Orders(SubFolders(UNANALYSED_ARTWORK_DIR)),
             porder \in Orders(DOMAIN found) :
             \E pick \in {f \in [DOMAIN found -> {<<>>} \cup UNION {found[d] : d \in DOMAIN found}] :
                             \A d \in DOMAIN found :
                                 IF found[d] = {} THEN f[d] = <<>> ELSE f[d] \in found[d]} :
                 validate(uorder, porder, pick)
    /\ UNCHANGED aux

ValidateNext == LoseFile \/ LoseThumbs \/ AddStray \/ RenameOriginal \/ RunValidate

SpecValidate == ValidateInit /\ [][ValidateNext]_vars

----------------------------------------------------------------------------
(* A registry write, step by step, with the process killed at any point *)

\* the content each writer dumps, from the registry it read
NewData(op, slug, reg) ==
    CASE op = "analyze" ->
            Update(reg, slug, AnalysisRecord(processed_artwork_path(slug),
                       processed_analysis_path(slug), processed_openai_path(slug)))
      [] op = "finalise" ->
            Update(reg, slug, FinalRecord(slug, finalised_artwork_path(slug),
                       preview_path(slug), FullMetadata))
      [] op = "register" -> Update(reg, slug, [image |-> processed_artwork_path(slug)])
      [] op = "delete" -> [k \in DOMAIN reg \ ToDelete(reg, slug) |-> reg[k]]

\* the file of a name, and the files after one of them is written
FileOf(name) == IF name = "master" THEN registry ELSE tmp
PutFile(name, content) ==
    IF name = "master" THEN registry' = content /\ UNCHANGED tmp
    ELSE tmp' = content /\ UNCHANGED registry

quiet == <<tracker, issued, dirs, files, templates, lastOp, epoch, session, procs>>

\* the registry is read and the temporary file opened for writing, which truncates it
OpenTmp ==
    /\ writer.pc = "idle"
    /\ \E op \in {"analyze", "finalise", "register", "delete"}, slug \in {<<"a">>, <<"b">>} :
          writer' = [pc |-> "open", target |-> with_suffix_tmp("master"),
                     data |-> NewData(op, slug, ReadRegistry(registry)),
                     before |-> registry, crashed |-> FALSE]
    /\ PutFile(writer'.target, Unfinished)
    /\ UNCHANGED quiet

\* json.dump has written a part of the document
DumpPart ==
    /\ writer.pc = "open"
    /\ writer' = [writer EXCEPT !.pc = "half"]
    /\ PutFile(writer.target, [state |-> "corrupt", data |-> writer.data])
    /\ UNCHANGED quiet

\* the whole document is written and the file closed
DumpRest ==
    /\ writer.pc = "half"
    /\ writer' = [writer EXCEPT !.pc = "dumped"]
    /\ PutFile(writer.target, Replaced(writer.data))
    /\ UNCHANGED quiet

\* tmp.replace(MASTER_ARTWORK_PATHS_FILE)
RenameTmp ==
    /\ writer.pc = "dumped"
    /\ writer' = [writer EXCEPT !.pc = "idle"]
    /\ IF writer.target = "master" THEN UNCHANGED <<registry, tmp>>
       ELSE registry' = tmp /\ tmp' = NoFile
    /\ UNCHANGED quiet

\* the process is killed during the write
Kill ==
    /\ writer.pc # "idle"
    /\ writer' = [writer EXCEPT !.pc = "idle", !.crashed = TRUE]
    /\ UNCHANGED <<registry, tmp>>
    /\ UNCHANGED quiet

\* the temporary file a killed write left behind is cut short
TruncateTmp ==
    /\ writer.pc = "idle" /\ writer.crashed
    /\ tmp.state = "ok"
    /\ tmp' = [state |-> "corrupt", data |-> tmp.data]
    /\ UNCHANGED <<registry, writer>>
    /\ UNCHANGED quiet

CrashNext == OpenTmp \/ DumpPart \/ DumpRest \/ RenameTmp \/ Kill \/ TruncateTmp

SpecCrash == RegistryInit /\ [][CrashNext]_vars

----------------------------------------------------------------------------
(* Claims about the SKU allocator *)

\* PREFIX-000dd written out, for n < 100
ExpectedSku(n) ==
    <<"R","J","C","-","0","0","0">> \o <<DigitSeq[(n \div 10) + 1], DigitSeq[(n % 10) + 1]>>

\* C1: from an absent tracker, with nothing else touching the tracker, the i-th
\* serialized call of get_next_sku returns PREFIX-0000i (so no SKU is returned twice,
\* also when artworks are deleted between the calls), and after each call the tracker
\* holds {"last": n} for the number n just issued.
C1_SequentialSkus ==
    /\ \A i \in 1..Len(issued) : issued[i] = ExpectedSku(i)
    /\ \A i, j \in 1..Len(issued) : i # j => issued[i] # issued[j]
    /\ IF issued = <<>> THEN tracker.state = "absent"
       ELSE tracker = [state |-> "ok", last |-> Len(issued)]

\* three calls were made and every uploaded artwork was deleted again
C1_Witness ==
    /\ Len(issued) >= 3
    /\ Folders("unanalysed") = {}
    /\ lastOp.op = "delete"

\* C2 as stated: all returned SKUs are pairwise distinct, also when the tracker is
\* deleted or corrupted between the calls.
C2_NoRepeatsEver == \A i, j \in 1..Len(issued) : i # j => issued[i] # issued[j]

\* C2 as amended: the SKUs returned since the tracker was last deleted or corrupted
\* are pairwise distinct and count up from PREFIX-00001; the first call after a loss
\* starts again at PREFIX-00001.
C2_DistinctSinceLoss ==
    /\ \A i, j \in (epoch + 1)..Len(issued) : i # j => issued[i] # issued[j]
    /\ \A i \in (epoch + 1)..Len(issued) : issued[i] = ExpectedSku(i - epoch)

\* the tracker was lost after a call, two more calls followed, and the first of them
\* returned an SKU that had been issued before
C2_Witness ==
    /\ epoch >= 1
    /\ Len(issued) >= epoch + 2
    /\ \E i \in 1..epoch : issued[i] = issued[epoch + 1]

----------------------------------------------------------------------------
(* Claims about the stage transitions *)

\* the paths a registry record stores
RecordPaths(rec) ==
    {rec[k] : k \in DOMAIN rec \cap {"image", "analysis", "openai", "preview"}}
    \cup (IF "mockups" \in DOMAIN rec THEN Range(rec.mockups) ELSE {})

\* C3: analyze_artwork rejects every source path that is not a descendant, by path
\* components, of the unanalysed root: the call fails, no file is moved and no
\* registry record is written.
C3_RejectsOutsideRoot ==
    [][ (lastOp'.op = "analyze" /\ ~Under(lastOp'.path, UNANALYSED_ARTWORK_DIR))
        => (~lastOp'.ok /\ files' = files /\ dirs' = dirs /\ registry' = registry) ]_vars

\* analyze_artwork was called with an existing file outside the root and failed
C3_Witness ==
    /\ lastOp.op = "analyze" /\ ~lastOp.ok
    /\ lastOp.path = OutsideFile /\ OutsideFile \in DOMAIN files

\* the nine mockups and the main artwork finalise requires, main first
Required(slug) ==
    <<processed_artwork_path(slug)>> \o [i \in 1..9 |-> mockup_path(slug, i)]

\* C4: finalise_artwork fails whenever the processed main artwork or one of the
\* mockups 1..9 is absent, the error names the first missing required file (the main
\* artwork first, otherwise the lowest-numbered missing mockup), and the failure
\* leaves the directories, the files and the registry as they were.
C4_FinaliseChecksFirst ==
    [][ lastOp'.op = "finalise" =>
          LET req == Required(lastOp'.slug)
              missing == {k \in 1..Len(req) : ~Exists(req[k])}
          IN IF missing = {}
             THEN lastOp'.ok
             ELSE /\ ~lastOp'.ok
                  /\ lastOp'.err = "FileNotFoundError"
                  /\ lastOp'.path = req[CHOOSE k \in missing : \A m \in missing : k <= m]
                  /\ files' = files /\ dirs' = dirs /\ registry' = registry ]_vars

\* finalise failed on mockup 2 of an analysed artwork whose mockup 1 exists, while
\* the registry holds the artwork's record
C4_Witness ==
    /\ lastOp.op = "finalise" /\ ~lastOp.ok
    /\ lastOp.path = mockup_path(lastOp.slug, 2)
    /\ mockup_path(lastOp.slug, 1) \in DOMAIN files
    /\ lastOp.slug \in DOMAIN registry.data
    /\ finalised_artwork_path(lastOp.slug) \notin DOMAIN files

\* C6: analyze_artwork, finalise_artwork and register_artwork_in_master change only
\* the record of their own slug: every other slug that had a record before the
\* operation has the identical record afterwards.
C6_RegistryAdditive ==
    [][ (lastOp'.op \in {"analyze", "finalise", "register"} /\ lastOp'.ok) =>
          \A s \in DOMAIN ReadRegistry(registry) \ {lastOp'.slug} :
              /\ s \in DOMAIN ReadRegistry(registry')
              /\ ReadRegistry(registry')[s] = ReadRegistry(registry)[s] ]_vars

\* a slug was finalised while another slug, finalised earlier, keeps its record
C6_Witness ==
    /\ lastOp.op = "finalise" /\ lastOp.ok
    /\ \E s \in DOMAIN registry.data \ {lastOp.slug} :
          /\ "status" \in DOMAIN registry.data[s]
          /\ registry.data[s].preview = preview_path(s)

\* C7: when analyze_artwork (called with a source inside the unanalysed root) or
\* finalise_artwork has written a slug's record, every path stored in that record
\* names a file that exists.
C7_RecordedPathsExist ==
    (/\ lastOp.op \in {"analyze", "finalise"} /\ lastOp.ok
     /\ lastOp.op = "analyze" => Under(lastOp.path, UNANALYSED_ARTWORK_DIR))
    => \A p \in RecordPaths(ReadRegistry(registry)[lastOp.slug]) : p \in DOMAIN files

\* analyze_artwork has written a record whose three paths all exist
C7_Witness ==
    /\ lastOp.op = "analyze" /\ lastOp.ok
    /\ Under(lastOp.path, UNANALYSED_ARTWORK_DIR)
    /\ RecordPaths(ReadRegistry(registry)[lastOp.slug]) \subseteq DOMAIN files

\* the mockup files of a slug
MockupFiles(f, slug) ==
    {p \in DOMAIN f : Under(p, Join(FINALISED_ARTWORK_DIR, slug)) /\ Contains(p.rel[2], S_MU)}

\* C8: with the processed main artwork present and nine templates of the artwork's
\* size, generate(slug) leaves exactly the nine mockup files 1..9; run while all nine
\* exist, it writes no new file and modifies none.
C8_NineMockupsIdempotent ==
    [][ (lastOp'.op = "generate" /\ lastOp'.ok /\ Len(templates) >= 9
         /\ \A i \in 1..9 : templates[i] = ArtSize) =>
          LET slug == lastOp'.slug
              nine == {mockup_path(slug, i) : i \in 1..9}
          IN /\ MockupFiles(files', slug) = nine
             /\ \A p \in DOMAIN files : p \in DOMAIN files' /\ (p \notin nine => files'[p] = files[p])
             /\ DOMAIN files' \ DOMAIN files \subseteq nine
             /\ (nine \subseteq DOMAIN files => files' = files) ]_vars

\* generate ran for a slug whose nine mockups were made from an earlier artwork than
\* the one now in the processed stage: the run found all nine and wrote nothing
C8_Witness ==
    /\ lastOp.op = "generate" /\ lastOp.ok
    /\ \A i \in 1..9 : templates[i] = ArtSize
    /\ \A i \in 1..9 : mockup_path(lastOp.slug, i) \in DOMAIN files
    /\ files[mockup_path(lastOp.slug, 1)].art # files[processed_artwork_path(lastOp.slug)].art

----------------------------------------------------------------------------
(* Claims about the registry file *)

\* C5: at every point of a registry write, also when the process is killed during
\* it and the temporary file is left cut short, the registry file holds a complete
\* document: the content before the write or the complete new content.
C5_RegistryNeverPartial ==
    /\ registry.state # "corrupt"
    /\ \/ registry = writer.before
       \/ registry = Replaced(writer.data)

\* a write was killed, its temporary file is cut short, and the registry still
\* holds the records it held before
C5_Witness ==
    /\ writer.pc = "idle" /\ writer.crashed
    /\ tmp.state = "corrupt"
    /\ registry.state = "ok" /\ DOMAIN registry.data # {}
    /\ registry = writer.before
    /\ writer.data # registry.data

----------------------------------------------------------------------------
(* Claims about the validator *)

\* an unanalysed unit with its THUMB, ANALYSE and QC files and one more file, the original
CompleteUnit(d) ==
    LET derived == { Join(d, UnitSku \o S_THUMB \o S_jpg),
                     Join(d, UnitSku \o S_ANALYSE \o S_jpg),
                     Join(d, UnitSku \o S_QC \o S_json) }
    IN /\ derived \subseteq DOMAIN files
       /\ \E p \in (Children(d) \cap DOMAIN files) \ derived :
             Lower(Suffix(Name(p))) \in ImageSuffixes

\* a processed unit with its five files, its THUMBS folder, the nine mockups and the
\* nine mockup thumbnails, and nothing else
CompleteProcessed(d) ==
    /\ Join(d, S_THUMBS) \in dirs
    /\ {p \in DOMAIN files : Under(p, d)} = ProcessedFiles

WellFormed ==
    /\ MarkerPath \in DOMAIN files
    /\ \A d \in SubFolders(UNANALYSED_ARTWORK_DIR) : CompleteUnit(d)
    /\ \A d \in SubFolders(PROCESSED_ARTWORK_DIR) : CompleteProcessed(d)

\* C9: validate returns the empty list for every well-formed tree: the marker is
\* there, each unanalysed unit has its original, THUMB, ANALYSE and QC file, and each
\* processed unit has every required file, the THUMBS folder, nine mockups and nine
\* mockup thumbnails.
C9_WellFormedIsClean ==
    (lastOp.op = "validate" /\ WellFormed) => lastOp.ret = <<>>

\* validate has run over a well-formed tree and returned the empty list
C9_Witness == lastOp.op = "validate" /\ WellFormed /\ lastOp.ret = <<>>

\* the errors the claim requires for a processed folder and the SKU found in it
ExpectedErrors(d, sku) ==
    LET slug == Name(d)
        base == slug \o <<"-">> \o sku
        items == { [path |-> Join(d, base \o S_jpg), desc |-> "Main"],
                   [path |-> Join(d, base \o S_THUMB \o S_jpg), desc |-> "THUMB"],
                   [path |-> Join(d, base \o S_ANALYSE \o S_jpg), desc |-> "ANALYSE"],
                   [path |-> Join(d, sku \o S_QC \o S_json), desc |-> "QC JSON"],
                   [path |-> Join(d, sku \o S_FINAL \o S_json), desc |-> "Final JSON"],
                   [path |-> Join(d, S_THUMBS), desc |-> "THUMBS folder"] }
        counted == {p \in Children(d) :
                       StartsWith(Name(p), base \o S_MU) /\ EndsWith(Name(p), S_jpg)}
        thumbs == {p \in Children(Join(d, S_THUMBS)) :
                       StartsWith(Name(p), base \o S_MU) /\ EndsWith(Name(p), S_THUMB \o S_jpg)}
    IN {Err("Missing", r.desc, 0, sku, slug) : r \in {x \in items : ~Exists(x.path)}}
       \cup {Err("Missing", "mockup", i, sku, slug) :
                i \in {k \in 1..9 : ~Exists(Join(d, base \o S_MU \o TwoDigits(k) \o S_jpg))}}
       \cup {Err("Missing", "mockup thumb", i, sku, slug) :
                i \in {k \in 1..9 : ~Exists(Join(Join(d, S_THUMBS),
                                        base \o S_MU \o TwoDigits(k) \o S_THUMB \o S_jpg))}}
       \cup (IF Cardinality(counted) # 9
             THEN {Err("Expected 9", "mockups", 0, sku, slug)} ELSE {})
       \cup (IF Cardinality(thumbs) # 9
             THEN {Err("Expected 9", "mockup thumbs", 0, sku, slug)} ELSE {})

\* C10: for every processed folder in which a SKU is found, the list validate returns
\* holds exactly one error for each missing required item, each missing mockup, each
\* missing mockup thumbnail and each of the two counts that is not 9, and no other
\* error for the folder; a unit whose FINAL JSON is missing has an error that
\* mentions "Final JSON".
C10_ReportsEveryProblem ==
    lastOp.op = "validate" =>
        \A d \in SubFolders(PROCESSED_ARTWORK_DIR) :
            FoundSkus(d) # {} =>
                \E sku \in FoundSkus(d) :
                    LET errs == lastOp.ret
                        mine == {k \in 1..Len(errs) : errs[k].slug = Name(d)}
                        expected == ExpectedErrors(d, sku)
                    IN /\ {errs[k] : k \in mine} = expected
                       /\ Cardinality(mine) = Cardinality(expected)
                       /\ ~Exists(Join(d, sku \o S_FINAL \o S_json))
                             => \E k \in mine : errs[k].item = "Final JSON"

\* validate has run over a unit that lacks its main image and its FINAL JSON, and
\* has reported both
C10_Witness ==
    /\ lastOp.op = "validate"
    /\ ~Exists(Join(ProcessedUnit, S_slug \o <<"-">> \o ProcessedSku \o S_jpg))
    /\ ~Exists(Join(ProcessedUnit, ProcessedSku \o S_FINAL \o S_json))
    /\ Len(lastOp.ret) = 2
    /\ lastOp.ret[1].item = "Main" /\ lastOp.ret[2].item = "Final JSON"

\* the artifacts of the unanalysed unit that are absent from its folder
AbsentArtifacts ==
    (IF Exists(Join(UnitFolder, S_img \o S_jpg)) THEN {} ELSE {"original"})
    \cup (IF Exists(Join(UnitFolder, UnitSku \o S_THUMB \o S_jpg)) THEN {} ELSE {"THUMB"})
    \cup (IF Exists(Join(UnitFolder, UnitSku \o S_ANALYSE \o S_jpg)) THEN {} ELSE {"ANALYSE"})
    \cup (IF Exists(Join(UnitFolder, UnitSku \o S_QC \o S_json)) THEN {} ELSE {"QC"})

\* the artifact an error of check_unanalysed mentions
Mentioned(e) == IF e.what = "Missing QC JSON in" THEN "QC" ELSE e.item

\* C11: the list validate returns holds, for the unanalysed unit, exactly one error
\* for each of its original, THUMB, ANALYSE and QC file that is absent, whatever else
\* of the unit is absent as well: a unit without its THUMB has an error that
\* mentions "THUMB", and a unit with all four has none.  (Stated for a unit whose
\* original, when present, is under its own name.)
C11_ReportsEveryAbsence ==
    (/\ lastOp.op = "validate"
     /\ UnitFolder \in dirs
     /\ ~Exists(Join(UnitFolder, UnitSku \o S_jpg))) =>
        LET errs == lastOp.ret
            mine == {k \in 1..Len(errs) :
                        \/ errs[k].slug = S_img
                        \/ errs[k].slug = <<>> /\ errs[k].what = "Missing"}
        IN /\ {Mentioned(errs[k]) : k \in mine} = AbsentArtifacts
           /\ Cardinality(mine) = Cardinality(AbsentArtifacts)

\* validate has run over a unit that lacks only its THUMB, and has reported it
C11_Witness ==
    /\ lastOp.op = "validate"
    /\ AbsentArtifacts = {"THUMB"}
    /\ \E k \in 1..Len(lastOp.ret) :
          lastOp.ret[k].item = "THUMB" /\ lastOp.ret[k].slug = <<>>

\* the SKUs check_processed may take for the processed folders
Picks ==
    LET found == [d \in SubFolders(PROCESSED_ARTWORK_DIR) |-> FoundSkus(d)]
    IN {f \in [DOMAIN found -> {<<>>} \cup UNION {found[d] : d \in DOMAIN found}] :
           \A d \in DOMAIN found :
               IF found[d] = {} THEN f[d] = <<>> ELSE f[d] \in found[d]}

\* C12: the list validate returns is the marker error when <root>/.env is absent
\* (and no marker error when it is there), followed by all the errors of
\* check_unanalysed, followed by all the errors of check_processed, each group in
\* the order its sub-check produced it, none dropped and none twice; both
\* sub-checks run whether or not the marker is there.
C12_MarkerThenBothChecks ==
    lastOp.op = "validate" =>
        \E uorder \in Orders(SubFolders(UNANALYSED_ARTWORK_DIR)),
           porder \in Orders(SubFolders(PROCESSED_ARTWORK_DIR)), pick \in Picks :
            LET un == check_unanalysed(UNANALYSED_ARTWORK_DIR, uorder)
                pr == check_processed(PROCESSED_ARTWORK_DIR, porder, pick)
                errs == lastOp.ret
                first == IF Exists(MarkerPath) THEN 0 ELSE 1
            IN /\ Len(errs) = first + Len(un) + Len(pr)
               /\ first = 1 => errs[1].what = "Missing .env file"
               /\ \A k \in 1..Len(un) : errs[first + k] = un[k]
               /\ \A k \in 1..Len(pr) : errs[first + Len(un) + k] = pr[k]
               /\ \A k \in (first + 1)..Len(errs) : errs[k].what # "Missing .env file"

\* validate has run over a tree in which each sub-check finds one problem, and has
\* returned the unanalysed unit's error before the processed unit's
C12_Witness ==
    /\ lastOp.op = "validate"
    /\ Len(lastOp.ret) = 2
    /\ lastOp.ret[1].item = "THUMB" /\ lastOp.ret[1].slug = <<>>
    /\ lastOp.ret[2].item = "Final JSON" /\ lastOp.ret[2].slug = S_slug

\* validate has run without the marker and has still reported a unit's problem
C12_WitnessMarker ==
    /\ lastOp.op = "validate"
    /\ ~Exists(MarkerPath)
    /\ Len(lastOp.ret) = 2
    /\ lastOp.ret[1].what = "Missing .env file"

\* C13: a successful analyze_artwork of a source under the unanalysed root moves it:
\* after the step the source file is gone from the unanalysed root, and the
\* processed root holds its content at <slug>/<slug>.jpg, where slug is the
\* sanitized first folder of the source's path relative to the unanalysed root.
C13_AnalyseMoves ==
    [][(/\ lastOp'.op = "analyze"
        /\ lastOp'.ok
        /\ Under(lastOp'.path, UNANALYSED_ARTWORK_DIR)) =>
           LET src == lastOp'.path
               slug == sanitize_slug(src.rel[1])
               dst == P("processed", <<slug, slug \o S_jpg>>)
           IN /\ src \in DOMAIN files
              /\ src \notin DOMAIN files'
              /\ dst \in DOMAIN files'
              /\ files'[dst] = files[src]
              /\ lastOp'.slug = slug]_vars

\* an analysis has succeeded: its source is gone and the processed image is there
C13_Witness ==
    /\ lastOp.op = "analyze" /\ lastOp.ok
    /\ Under(lastOp.path, UNANALYSED_ARTWORK_DIR)
    /\ ~Exists(lastOp.path)
    /\ Exists(P("processed", <<lastOp.slug, lastOp.slug \o S_jpg>>))

\* C14: analyze_artwork of a source that does not exist fails with the not-found
\* error and changes nothing: no folder is created, no file is removed, moved or
\* written, and the registry is as it was.
C14_AbsentSourceChangesNothing ==
    [][(lastOp'.op = "analyze" /\ ~Exists(lastOp'.path)) =>
           /\ ~lastOp'.ok
           /\ lastOp'.err = "FileNotFoundError"
           /\ dirs' = dirs
           /\ files' = files
           /\ registry' = registry
           /\ tracker' = tracker]_vars

\* an analysis has failed on a source that is not there (it was moved by an
\* earlier analysis), and the processed image of that analysis is still there
C14_Witness ==
    /\ lastOp.op = "analyze" /\ ~lastOp.ok
    /\ Under(lastOp.path, UNANALYSED_ARTWORK_DIR)
    /\ Len(lastOp.path.rel) = 2
    /\ ~Exists(lastOp.path)
    /\ LET slug == sanitize_slug(lastOp.path.rel[1])
       IN /\ Exists(P("processed", <<slug, slug \o S_jpg>>))
          /\ slug \in DOMAIN ReadRegistry(registry)

\* the value the claim requires for a field of the record
FieldOrEmpty(metadata, key) == IF key \in DOMAIN metadata THEN metadata[key] ELSE ""

\* C15: after a successful finalise_artwork(slug, metadata) the finalised root holds
\* a copy of the processed main artwork and a preview, and the registry's record of
\* the slug holds the preview path, the nine mockup paths, the title, description,
\* primary colour and secondary colour of the metadata (the empty string for a field
\* the metadata lacks) and the status "finalised".
C15_FinaliseCopiesAndRecords ==
    [][\A raw \in Folders("processed"), metadata \in Metadatas :
          (finalise_artwork(raw, metadata) /\ lastOp'.ok) =>
              LET slug == sanitize_slug(raw)
                  final == finalised_artwork_path(slug)
              IN /\ final \in DOMAIN files'
                 /\ files'[final] = files[processed_artwork_path(slug)]
                 /\ processed_artwork_path(slug) \in DOMAIN files'
                 /\ preview_path(slug) \in DOMAIN files'
                 /\ Under(final, FINALISED_ARTWORK_DIR)
                 /\ Under(preview_path(slug), FINALISED_ARTWORK_DIR)
                 /\ registry'.state = "ok"
                 /\ slug \in DOMAIN registry'.data
                 /\ LET rec == registry'.data[slug]
                    IN /\ rec.preview = preview_path(slug)
                       /\ rec.mockups = [i \in 1..9 |-> mockup_path(slug, i)]
                       /\ rec.title = FieldOrEmpty(metadata, "title")
                       /\ rec.description = FieldOrEmpty(metadata, "description")
                       /\ rec.primary_colour = FieldOrEmpty(metadata, "primary_colour")
                       /\ rec.secondary_colour = FieldOrEmpty(metadata, "secondary_colour")
                       /\ rec.status = "finalised"]_vars

\* an artwork has been finalised with metadata that holds a title only
C15_Witness ==
    /\ lastOp.op = "finalise" /\ lastOp.ok
    /\ registry.state = "ok"
    /\ lastOp.slug \in DOMAIN registry.data
    /\ "status" \in DOMAIN registry.data[lastOp.slug]
    /\ registry.data[lastOp.slug].title = "T"
    /\ registry.data[lastOp.slug].description = ""
    /\ Exists(finalised_artwork_path(lastOp.slug))
    /\ Exists(preview_path(lastOp.slug))

\* the k-th name _unique_slug tries for a slug
Candidate(slug, k) == IF k = 0 THEN slug ELSE slug \o <<"-">> \o Digits(k)

\* C16: the folder an upload is given is <unanalysed>/<slug> when nothing of that
\* name exists, and otherwise <unanalysed>/<slug>-k for the smallest k >= 1 of which
\* nothing exists; it never names an existing entry, so an upload leaves every file
\* that was there as it was and writes only below its own new folder.
C16_UniqueFolder ==
    [][\A filename \in {ArtJpg, ArtPng, XGif}, readable \in BOOLEAN :
          (upload_artwork(filename, readable) /\ lastOp'.err # "invalid file type") =>
              LET slug == sanitize_slug(Stem(filename))
                  target == Join(UNANALYSED_ARTWORK_DIR, lastOp'.slug)
              IN /\ \E k \in 0..MaxCalls :
                       /\ lastOp'.slug = Candidate(slug, k)
                       /\ \A j \in 0..(k - 1) :
                             Exists(Join(UNANALYSED_ARTWORK_DIR, Candidate(slug, j)))
                 /\ ~Exists(target)
                 /\ target \in dirs'
                 /\ \A f \in DOMAIN files : f \in DOMAIN files' /\ files'[f] = files[f]
                 /\ \A f \in DOMAIN files' \ DOMAIN files : Under(f, target)]_vars

\* an upload has been given the folder <slug>-1 while the folder <slug> of an
\* earlier upload is still there
C16_Witness ==
    /\ lastOp.op = "upload"
    /\ lastOp.slug = Candidate(sanitize_slug(Stem(ArtJpg)), 1)
    /\ Join(UNANALYSED_ARTWORK_DIR, sanitize_slug(Stem(ArtJpg))) \in dirs
    /\ Join(UNANALYSED_ARTWORK_DIR, lastOp.slug) \in dirs

\* a JSON file that is there and cannot be read
Unreadable(f) == f.state \notin {"ok", "absent"}

\* C17: an unreadable tracker or registry is never fatal and is read as empty.  An
\* upload over an unreadable tracker is given the SKU <prefix>-00001 and leaves the
\* tracker holding 1.  Over an unreadable registry, delete completes and leaves an
\* empty registry, and analyze and finalise fail only for want of their input files
\* and on success leave a registry that holds their own record and nothing else.
C17_UnreadableIsEmpty ==
    [][/\ \A filename \in {ArtJpg} :
            (upload_artwork(filename, TRUE) /\ Unreadable(tracker)) =>
                /\ lastOp'.ok
                /\ lastOp'.ret = SKU_PREFIX \o <<"-","0","0","0","0","1">>
                /\ tracker' = [state |-> "ok", last |-> 1]
       /\ \A raw \in Folders("unanalysed") \cup Folders("processed") :
            (delete_unanalysed_artwork(raw) /\ Unreadable(registry)) =>
                /\ lastOp'.ok
                /\ registry' = Replaced(NoRecords)
       /\ \A in \in InsideInputs :
            (analyze_artwork(in[1], in[2], "unconfigured", TRUE) /\ Unreadable(registry)) =>
                IF lastOp'.ok
                THEN registry'.state = "ok" /\ DOMAIN registry'.data = {lastOp'.slug}
                ELSE lastOp'.err = "FileNotFoundError" /\ registry' = registry
       /\ \A raw \in Folders("processed"), metadata \in Metadatas :
            (finalise_artwork(raw, metadata) /\ Unreadable(registry)) =>
                IF lastOp'.ok
                THEN registry'.state = "ok" /\ DOMAIN registry'.data = {lastOp'.slug}
                ELSE lastOp'.err = "FileNotFoundError" /\ registry' = registry]_vars

\* a delete has completed over a registry that was unreadable: the registry is
\* empty although another slug has been analysed and is still in the processed root
C17_Witness ==
    /\ lastOp.op = "delete" /\ lastOp.ok
    /\ registry = Replaced(NoRecords)
    /\ \E slug \in Folders("processed") :
          slug # lastOp.slug /\ Exists(processed_analysis_path(slug))

StageRoots == {UNANALYSED_ARTWORK_DIR, PROCESSED_ARTWORK_DIR, FINALISED_ARTWORK_DIR}

\* C18: after the explicit deletion of a slug, no directory of the slug is left under
\* any stage root in which the slug had files, and the registry has no record keyed
\* by the slug.
C18_DeleteRemovesAll ==
    [][\A raw \in Folders("unanalysed") :
          delete_unanalysed_artwork(raw) =>
              LET slug == sanitize_slug(raw)
              IN /\ \A root \in StageRoots :
                       (\E f \in DOMAIN files : Under(f, Join(root, slug))) =>
                           /\ Join(root, slug) \notin dirs'
                           /\ \A f \in DOMAIN files' : ~Under(f, Join(root, slug))
                 /\ slug \notin DOMAIN ReadRegistry(registry')]_vars

\* an artwork that was never analysed has been deleted: nothing of it is left
C18_Witness ==
    /\ lastOp.op = "delete" /\ lastOp.err = "Deleted"
    /\ \A root \in StageRoots : Join(root, lastOp.slug) \notin dirs
    /\ lastOp.slug \notin DOMAIN ReadRegistry(registry)

\* the requests the gate lets through without a login
OpenOps == {"login", "static"}

\* C19: a request to any endpoint other than login and static (and /favicon.ico)
\* while the session is not authenticated is redirected to the login page and
\* performs no upload, analysis, mockup, finalise or delete: no file, folder,
\* tracker or registry changes.  The session becomes authenticated only by a
\* successful login and stops being so only by a logout; a successful login leaves
\* it authenticated and a logout leaves it not authenticated.
C19_LoginGate ==
    [][/\ (session \notin DOMAIN USERS /\ lastOp'.op \notin OpenOps) =>
              /\ lastOp'.err = "redirect to login"
              /\ ~lastOp'.ok
              /\ UNCHANGED <<tracker, issued, dirs, files, registry, session>>
       /\ (session \notin DOMAIN USERS /\ session' \in DOMAIN USERS) =>
              lastOp'.op = "login" /\ lastOp'.ok
       /\ (session \in DOMAIN USERS /\ session' \notin DOMAIN USERS) =>
              lastOp'.op = "logout" /\ lastOp'.ok
       /\ (lastOp'.op = "login" /\ lastOp'.ok) => session' \in DOMAIN USERS
       /\ (lastOp'.op = "logout" /\ lastOp'.ok) => session' \notin DOMAIN USERS]_vars

\* a client that had uploaded and logged out has asked for a delete and has been
\* sent to the login page: the artwork is still there
C19_Witness ==
    /\ session \notin DOMAIN USERS
    /\ lastOp.op = "delete" /\ lastOp.err = "redirect to login"
    /\ Folders("unanalysed") # {}

\* C20: an upload whose file cannot be decoded as an image fails and writes nothing:
\* no new folder and no original, THUMB, ANALYSE or QC file under the unanalysed
\* root.
C20_UnreadableWritesNothing ==
    [][\A filename \in {ArtJpg, ArtPng} :
          upload_artwork(filename, FALSE) =>
              /\ ~lastOp'.ok
              /\ dirs' = dirs
              /\ files' = files]_vars

\* an upload has failed on a file that is no image, and its folder holds no THUMB,
\* ANALYSE or QC file
C20_Witness ==
    /\ lastOp.op = "upload" /\ ~lastOp.ok /\ lastOp.err = "cannot identify image"
    /\ \A f \in DOMAIN files :
          Under(f, Join(UNANALYSED_ARTWORK_DIR, lastOp.slug)) => f = lastOp.path

----------------------------------------------------------------------------
(* upload_artwork one statement at a time, with a call that may end at any of them *)

MaxRuns == 2

S_tmp == <<".","t","m","p">>

\* functions as tables: t with id bound to rec, and t without id
Put(t, id, rec) == [k \in DOMAIN t \cup {id} |-> IF k = id THEN rec ELSE t[k]]
Drop(t, id) == [k \in DOMAIN t \ {id} |-> t[k]]

\* a file opened with mode "w" and not yet written: it is there and empty
Truncated == [state |-> "corrupt", last |-> 0]

\* path.with_suffix(path.suffix + ".tmp")
with_suffix_plus_tmp(path) ==
    P(path.root, [i \in 1..Len(path.rel) |->
                      IF i = Len(path.rel) THEN path.rel[i] \o S_tmp ELSE path.rel[i]])

UpAt(pc) == "upload" \in DOMAIN procs /\ procs["upload"].pc = pc
UpGoto(pc) == procs' = Put(procs, "upload", [procs["upload"] EXCEPT !.pc = pc])
UpThumbPath == Join(procs["upload"].dir, procs["upload"].sku \o S_THUMB \o S_jpg)
UpAnalysePath == Join(procs["upload"].dir, procs["upload"].sku \o S_ANALYSE \o S_jpg)
UpQcPath == Join(procs["upload"].dir, procs["upload"].sku \o S_QC \o S_json)

\* lines 103-114: the extension test, the slug and the folder
UpBegin ==
    /\ procs = <<>>
    /\ Cardinality(Folders("unanalysed")) < MaxRuns
    /\ \E filename \in {ArtJpg}, readable \in BOOLEAN :
          LET target_dir == _unique_slug(UNANALYSED_ARTWORK_DIR,
                                         sanitize_slug(Stem(filename)))
          IN /\ ExtOf(filename) \in ALLOWED_EXTENSIONS
             /\ dirs' = dirs \cup {target_dir}
             /\ procs' = Put(procs, "upload",
                    [pc |-> "read", filename |-> filename, readable |-> readable,
                     dir |-> target_dir, seen |-> tracker, sku |-> <<>>])
    /\ lastOp' = Outcome("uploading", <<>>, TRUE, "", NoPath, <<>>)
    /\ UNCHANGED <<tracker, issued, files, registry, templates, epoch, tmp, writer, session>>

\* get_next_sku, lines 19-26: the tracker is read
UpRead ==
    /\ UpAt("read")
    /\ procs' = Put(procs, "upload",
                    [procs["upload"] EXCEPT !.pc = "open", !.seen = tracker,
                                            !.sku = get_next_sku(tracker)])
    /\ UNCHANGED <<tracker, issued, dirs, files, registry, templates, lastOp,
                   epoch, tmp, writer, session>>

\* get_next_sku, line 27: write_text opens the tracker itself for writing
UpOpen ==
    /\ UpAt("open")
    /\ tracker' = Truncated
    /\ UpGoto("write")
    /\ UNCHANGED <<issued, dirs, files, registry, templates, lastOp, epoch, tmp, writer,
                   session>>

\* get_next_sku, lines 27-30: the new number is written and the SKU returned
UpWrite ==
    /\ UpAt("write")
    /\ tracker' = TrackerWritten(procs["upload"].seen)
    /\ issued' = Append(issued, procs["upload"].sku)
    /\ UpGoto("save")
    /\ UNCHANGED <<dirs, files, registry, templates, lastOp, epoch, tmp, writer, session>>

\* lines 117-118: the original is saved
UpSave ==
    /\ UpAt("save")
    /\ files' = Write(files, One(Join(procs["upload"].dir, procs["upload"].filename),
                                 Content("original", Len(issued), 0)))
    /\ UpGoto("image")
    /\ UNCHANGED <<tracker, issued, dirs, registry, templates, lastOp, epoch, tmp, writer,
                   session>>

\* line 120: Image.open, which raises on a file that is no image
UpImage ==
    /\ UpAt("image")
    /\ IF procs["upload"].readable
       THEN UpGoto("thumb") /\ UNCHANGED lastOp
       ELSE /\ procs' = Drop(procs, "upload")
            /\ lastOp' = Outcome("upload", procs["upload"].dir.rel[1], FALSE,
                                 "cannot identify image", NoPath, procs["upload"].sku)
    /\ UNCHANGED <<tracker, issued, dirs, files, registry, templates, epoch, tmp, writer,
                   session>>

\* line 126: thumb_img.save
UpThumb ==
    /\ UpAt("thumb")
    /\ files' = Write(files, One(UpThumbPath, Content("thumb", Len(issued), 0)))
    /\ UpGoto("analyse")
    /\ UNCHANGED <<tracker, issued, dirs, registry, templates, lastOp, epoch, tmp, writer,
                   session>>

\* line 127: analyse_img.save
UpAnalyse ==
    /\ UpAt("analyse")
    /\ files' = Write(files, One(UpAnalysePath, Content("analyse", Len(issued), 0)))
    /\ UpGoto("qc_open")
    /\ UNCHANGED <<tracker, issued, dirs, registry, templates, lastOp, epoch, tmp, writer,
                   session>>

\* _write_json, line 76: the temporary file is opened, and then written
UpQcOpen ==
    /\ UpAt("qc_open")
    /\ files' = Write(files, One(with_suffix_plus_tmp(UpQcPath),
                                 Content("empty", Len(issued), 0)))
    /\ UpGoto("qc_dump")
    /\ UNCHANGED <<tracker, issued, dirs, registry, templates, lastOp, epoch, tmp, writer,
                   session>>

UpQcDump ==
    /\ UpAt("qc_dump")
    /\ files' = Write(files, One(with_suffix_plus_tmp(UpQcPath),
                                 Content("qc", Len(issued), 0)))
    /\ UpGoto("qc_replace")
    /\ UNCHANGED <<tracker, issued, dirs, registry, templates, lastOp, epoch, tmp, writer,
                   session>>

\* _write_json, line 77: tmp.replace(path); the upload is complete
UpQcReplace ==
    /\ UpAt("qc_replace")
    /\ files' = Write(Remove(files, {with_suffix_plus_tmp(UpQcPath)}),
                      One(UpQcPath, files[with_suffix_plus_tmp(UpQcPath)]))
    /\ procs' = Drop(procs, "upload")
    /\ lastOp' = Outcome("upload", procs["upload"].dir.rel[1], TRUE, "", NoPath,
                         procs["upload"].sku)
    /\ UNCHANGED <<tracker, issued, dirs, registry, templates, epoch, tmp, writer, session>>

\* the call ends where it is: the process is killed, or the statement it is at raises
\* (a full disk, a file that cannot be written)
UpEnds ==
    /\ "upload" \in DOMAIN procs
    /\ procs' = Drop(procs, "upload")
    /\ lastOp' = Outcome("upload", procs["upload"].dir.rel[1], FALSE,
                         procs["upload"].pc, NoPath, procs["upload"].sku)
    /\ UNCHANGED <<tracker, issued, dirs, files, registry, templates, epoch, tmp, writer,
                   session>>

UploadStepsNext ==
    \/ UpBegin \/ UpRead \/ UpOpen \/ UpWrite \/ UpSave \/ UpImage \/ UpThumb \/ UpAnalyse
    \/ UpQcOpen \/ UpQcDump \/ UpQcReplace \/ UpEnds

SpecUploadSteps == Start(NoFiles, AllMatch(NumMockups)) /\ [][UploadStepsNext]_vars

\* the folders of the unanalysed root that hold a file whose name ends with ending
HoldersOf(ending) ==
    { f.rel[1] : f \in {g \in DOMAIN files :
                          /\ g.root = "unanalysed" /\ Len(g.rel) = 2
                          /\ EndsWith(g.rel[2], ending)} }

\* C21: whenever no upload is in progress (it has completed, failed or been killed),
\* every artwork folder holds both its THUMB and its ANALYSE derivative or neither.
C21_DerivativePair ==
    procs = <<>> => HoldersOf(S_THUMB \o S_jpg) = HoldersOf(S_ANALYSE \o S_jpg)

\* an upload has completed and its folder holds both derivatives
C21_Witness ==
    /\ procs = <<>>
    /\ lastOp.op = "upload" /\ lastOp.ok
    /\ lastOp.slug \in HoldersOf(S_THUMB \o S_jpg)
    /\ lastOp.slug \in HoldersOf(S_ANALYSE \o S_jpg)

\* the JSON files the upload writes that are there and cannot be read as written: the
\* tracker, and the QC files
QcFiles == {f \in DOMAIN files : f.root = "unanalysed" /\ EndsWith(f.rel[Len(f.rel)], S_QC \o S_json)}

\* C26: whenever no upload is in progress (it has completed, failed or been killed at
\* any statement), the SKU tracker and every QC metadata file that is there is
\* complete: none is empty, half-written or corrupted.
C26_JsonWritesAtomic ==
    procs = <<>> =>
        /\ tracker.state # "corrupt"
        /\ \A f \in QcFiles : files[f].kind = "qc"

\* an upload was killed while it wrote its QC metadata: the temporary file is there
\* and empty, and no QC file is
C26_Witness ==
    /\ procs = <<>>
    /\ lastOp.op = "upload" /\ lastOp.err = "qc_dump"
    /\ QcFiles = {}
    /\ \E f \in DOMAIN files : EndsWith(f.rel[Len(f.rel)], S_json \o S_tmp)
                               /\ files[f].kind = "empty"

\* what the external provider does when it fails: it is not configured, its call
\* raises, or its response holds no image
ProviderFailures == {"unconfigured", "raises", "no_image"}

\* C22: when the external provider fails, the analysis of a source that is there and
\* in scope still succeeds: the analysis JSON is the mock analysis, the auxiliary
\* image holds the bytes of the source image, and the registry holds the record of
\* the slug with the three processed paths.
C22_ProviderFailureFallsBack ==
    [][\A in \in InsideInputs \cup RepeatInputs, ai \in ProviderFailures :
          (analyze_artwork(in[1], in[2], ai, TRUE) /\ in[2] \in DOMAIN files) =>
              LET slug == sanitize_slug(in[1][1])
              IN /\ lastOp'.ok
                 /\ processed_analysis_path(slug) \in DOMAIN files'
                 /\ files'[processed_analysis_path(slug)].kind = "mock"
                 /\ processed_openai_path(slug) \in DOMAIN files'
                 /\ files'[processed_openai_path(slug)] = files[in[2]]
                 /\ registry'.state = "ok"
                 /\ slug \in DOMAIN registry'.data
                 /\ registry'.data[slug] =
                        [image |-> processed_artwork_path(slug),
                         analysis |-> processed_analysis_path(slug),
                         openai |-> processed_openai_path(slug)]]_vars

\* an analysis has succeeded with the mock analysis and the source's bytes as the
\* auxiliary image
C22_Witness ==
    /\ lastOp.op = "analyze" /\ lastOp.ok
    /\ processed_analysis_path(lastOp.slug) \in DOMAIN files
    /\ files[processed_analysis_path(lastOp.slug)].kind = "mock"
    /\ processed_openai_path(lastOp.slug) \in DOMAIN files
    /\ files[processed_openai_path(lastOp.slug)] = files[processed_artwork_path(lastOp.slug)]
    /\ lastOp.slug \in DOMAIN ReadRegistry(registry)

\* C23: generate(slug) writes mockup N exactly when N is among the first nine
\* templates, nothing exists at mockup N's path and template N has the artwork's
\* size: a template of another size loses its own slot only, a mockup that exists is
\* left as it is, every mockup written is made from the processed main artwork, and
\* nothing but mockups is written; when the processed main artwork is absent,
\* nothing is written and no folder is made.
C23_PerSlotGeneration ==
    [][\A raw \in SlugInputs :
          generate(raw) =>
              LET slug == sanitize_slug(raw)
                  source == processed_artwork_path(slug)
                  slot(N) == mockup_path(slug, N)
              IN IF source \notin DOMAIN files
                 THEN files' = files /\ dirs' = dirs
                 ELSE /\ \A N \in 1..(NumMockups + 1) :
                            /\ (slot(N) \in DOMAIN files' \ DOMAIN files) <=>
                                  (/\ N <= 9 /\ N <= Len(templates)
                                   /\ ~Exists(slot(N))
                                   /\ templates[N] = ArtSize)
                            /\ slot(N) \in DOMAIN files' \ DOMAIN files =>
                                  files'[slot(N)].art = files[source].art
                      /\ \A p \in DOMAIN files : p \in DOMAIN files' /\ files'[p] = files[p]
                      /\ DOMAIN files' \ DOMAIN files \subseteq
                            {slot(N) : N \in 1..NumMockups}]_vars

\* generate has run over templates of which the second and the fifth are of another
\* size: the slots 1, 3, 4 and 6 to 9 are there and the slots 2 and 5 are not
C23_Witness ==
    /\ lastOp.op = "generate" /\ lastOp.ok
    /\ templates[2] # ArtSize /\ templates[5] # ArtSize
    /\ \A N \in 1..9 :
          mockup_path(lastOp.slug, N) \in DOMAIN files <=> N \notin {2, 5}

-----------------------------------------------------------------------------
(* services/finalise_service.py: _generate_preview, one encode at a time *)

PREVIEW_MAX_BYTES == 600 * 1024

\* quality = 95; quality <= 25; quality -= 5
QualityStart == 95
QualityFloor == 25
QualityStep == 5

\* the qualities the loop can ask the encoder for
Qualities == {q \in QualityFloor..QualityStart : (QualityStart - q) % QualityStep = 0}

\* tmp.stat().st_size of an encoding: the budget to the byte, and one byte over
EncodedSizes == {PREVIEW_MAX_BYTES, PREVIEW_MAX_BYTES + 1}

StopEncoding_Strict(size, quality) == size < PREVIEW_MAX_BYTES \/ quality <= QualityFloor

\* if tmp.stat().st_size <= PREVIEW_MAX_BYTES or quality <= 25: break
StopEncoding(size, quality) == size <= PREVIEW_MAX_BYTES \/ quality <= QualityFloor

\* _generate_preview is called on an image whose encodings have the sizes st_size:
\* nothing is encoded yet, tmp and dest hold no encoding (quality 0)
PreviewBegin ==
    /\ procs = <<>>
    /\ \E st_size \in [Qualities -> EncodedSizes] :
          procs' = Put(procs, "preview",
                       [pc |-> "encode", st_size |-> st_size, quality |-> QualityStart,
                        encodes |-> 0, tmp |-> 0, dest |-> 0])
    /\ lastOp' = Outcome("preview", <<>>, FALSE, "", NoPath, "")
    /\ UNCHANGED <<tracker, issued, dirs, files, registry, templates, epoch, tmp, writer,
                   session>>

\* one turn of the loop: img.save(tmp, quality=quality), then the test, then either
\* the break or quality -= 5
PreviewEncode ==
    /\ "preview" \in DOMAIN procs
    /\ procs["preview"].pc = "encode"
    /\ LET p == procs["preview"]
           saved == [p EXCEPT !.tmp = p.quality, !.encodes = p.encodes + 1]
       IN procs' = Put(procs, "preview",
                       IF StopEncoding(p.st_size[p.quality], p.quality)
                       THEN [saved EXCEPT !.pc = "replace"]
                       ELSE [saved EXCEPT !.quality = p.quality - QualityStep])
    /\ UNCHANGED <<tracker, issued, dirs, files, registry, templates, lastOp, epoch, tmp,
                   writer, session>>

\* tmp.replace(dest)
PreviewReplace ==
    /\ "preview" \in DOMAIN procs
    /\ procs["preview"].pc = "replace"
    /\ procs' = Put(procs, "preview",
                    [procs["preview"] EXCEPT !.pc = "done", !.dest = procs["preview"].tmp,
                                             !.tmp = 0])
    /\ lastOp' = Outcome("preview", <<>>, TRUE, "", NoPath, "")
    /\ UNCHANGED <<tracker, issued, dirs, files, registry, templates, epoch, tmp, writer,
                   session>>

PreviewNext == PreviewBegin \/ PreviewEncode \/ PreviewReplace

SpecPreview == Start(NoFiles, AllMatch(NumMockups)) /\ [][PreviewNext]_vars

\* the qualities whose encoding is within the budget
WithinBudget(st_size) == {q \in Qualities : st_size[q] <= PREVIEW_MAX_BYTES}

\* the quality the loop is to end on: the highest within the budget, the floor if none
ExpectedQuality(st_size) ==
    IF WithinBudget(st_size) = {} THEN QualityFloor
    ELSE CHOOSE q \in WithinBudget(st_size) : \A r \in WithinBudget(st_size) : r <= q

\* C24: the re-encode loop starts at quality 95 and goes down by 5 per encode; it
\* never encodes more than 15 times, every quality it asks for is one of 95, 90 .. 25,
\* and when it has ended the encoding renamed into place is the one of the highest
\* quality whose size is within the budget, or the one of quality 25 when no encoding
\* is within it, reached after one encode per quality from 95 down to that one.
C24_PreviewLoop ==
    "preview" \in DOMAIN procs =>
       LET p == procs["preview"]
           expected == ExpectedQuality(p.st_size)
       IN /\ p.encodes <= 15
          /\ p.quality \in Qualities
          /\ p.encodes = 0 => p.quality = 95
          /\ p.pc = "encode" => p.encodes = (95 - p.quality) \div 5
          /\ p.pc # "done" => p.dest = 0
          /\ p.pc = "done" =>
                /\ p.dest = expected
                /\ p.encodes = (95 - expected) \div 5 + 1

\* the loop has ended on an encoding within the budget that is neither the first
\* nor the last one, the size of which is the budget to the byte
C24_Witness ==
    /\ "preview" \in DOMAIN procs
    /\ procs["preview"].pc = "done"
    /\ procs["preview"].dest \in Qualities \ {QualityStart, QualityFloor}
    /\ procs["preview"].st_size[procs["preview"].dest] = PREVIEW_MAX_BYTES

\* no encoding is within the budget: the loop has ended after 15 encodes on the one
\* of quality 25
C24_WitnessFloor ==
    /\ "preview" \in DOMAIN procs
    /\ procs["preview"].pc = "done"
    /\ procs["preview"].encodes = 15
    /\ WithinBudget(procs["preview"].st_size) = {}

-----------------------------------------------------------------------------
(* analyze_artwork and finalise_artwork when a write raises part-way: neither has
   an except or finally clause around its steps, so what was done stays done *)

\* the steps of analyze_artwork after the move that write, and those of
\* finalise_artwork after the copy
AnalysePoints == {"analysis_json", "registry"}
FinalisePoints == {"preview", "registry"}

\* analyze_artwork up to the step that raises OSError: _safe_write_json at its
\* tmp.open, or _update_master_paths at its tmp.open
analyze_artwork_raising(rel, src_path, point) ==
    LET slug == sanitize_slug(rel[1])
        processed_image == processed_artwork_path(slug)
        analysis_path == processed_analysis_path(slug)
        openai_img == processed_openai_path(slug)
        source == files[src_path]
        moved == Move(Remove(files, {processed_image}), src_path, processed_image)
        analysed == Write(moved, One(analysis_path, Content("mock", source.art, 0)))
        written == Write(analysed, One(openai_img, source))
    IN /\ ~SourceMissing(src_path) /\ InScope(src_path)
       /\ <<".", ".">> \notin Range(rel)
       /\ dirs' = dirs \cup {Join(PROCESSED_ARTWORK_DIR, slug)}
       /\ files' = IF point = "analysis_json" THEN moved ELSE written
       /\ lastOp' = Outcome("analyze", slug, FALSE, "OSError", src_path, point)
       /\ UNCHANGED <<tracker, issued, registry, templates>>

\* finalise_artwork up to the step that raises OSError: _generate_preview at its
\* first img.save, or _update_master_paths at its tmp.open
finalise_artwork_raising(raw, point) ==
    LET slug == sanitize_slug(raw)
        source == processed_artwork_path(slug)
        final_path == finalised_artwork_path(slug)
        preview == preview_path(slug)
        copied == Write(files, One(final_path, files[source]))
    IN /\ FirstMissing(slug) = NoPath
       /\ point = "preview" => ~Exists(preview)
       /\ dirs' = dirs \cup {Join(FINALISED_ARTWORK_DIR, slug)}
       /\ files' = IF point = "preview" \/ Exists(preview) THEN copied
                   ELSE Write(copied, One(preview, Content("preview", files[source].art, 0)))
       /\ lastOp' = Outcome("finalise", slug, FALSE, "OSError", NoPath, point)
       /\ UNCHANGED <<tracker, issued, registry, templates>>

AnalyzeRaises ==
    /\ \E in \in InsideInputs, point \in AnalysePoints :
          analyze_artwork_raising(in[1], in[2], point)
    /\ UNCHANGED aux

FinaliseRaises ==
    /\ \E slug \in SlugInputs, point \in FinalisePoints : finalise_artwork_raising(slug, point)
    /\ UNCHANGED aux

PartialNext == Upload \/ Analyze \/ Generate \/ Finalise \/ AnalyzeRaises \/ FinaliseRaises

SpecPartial == Start(NoFiles, AllMatch(NumMockups)) /\ [][PartialNext]_vars

\* C25: a call of analyze_artwork or finalise_artwork that raises, at a precondition
\* check or at any later step, leaves the folders and files of the unanalysed,
\* processed and finalised directories and the registry as they were before the call.
C25_AllOrNothing ==
    [][LET same == dirs' = dirs /\ files' = files /\ registry' = registry
       IN /\ \A in \in InsideInputs :
                /\ analyze_artwork(in[1], in[2], "unconfigured", TRUE) /\ ~lastOp'.ok => same
                /\ \A point \in AnalysePoints :
                      analyze_artwork_raising(in[1], in[2], point) => same
          /\ \A slug \in SlugInputs :
                /\ finalise_artwork(slug, FullMetadata) /\ ~lastOp'.ok => same
                /\ \A point \in FinalisePoints :
                      finalise_artwork_raising(slug, point) => same]_vars

\* a finalise that raised at its check of the nine mockups, after an analysis:
\* nothing was written
C25_Witness ==
    /\ lastOp.op = "finalise" /\ lastOp.err = "FileNotFoundError"
    /\ lastOp.path # NoPath /\ lastOp.path # processed_artwork_path(lastOp.slug)
    /\ Join(FINALISED_ARTWORK_DIR, lastOp.slug) \notin dirs

-----------------------------------------------------------------------------
(* services/sku_service.py: get_next_sku called by several callers at once, one
   statement at a time.  procs[c].with is the set of the calls that were between
   their begin and their return at some moment at which c was too. *)

Calls == {c \in DOMAIN procs : procs[c].pc # "done"}
Returned == DOMAIN procs \ Calls

\* a caller enters get_next_sku (line 18)
CallBegin ==
    /\ Cardinality(DOMAIN procs) < MaxCalls
    /\ LET c == Cardinality(DOMAIN procs) + 1
       IN procs' = [d \in DOMAIN procs \cup {c} |->
                      IF d = c THEN [pc |-> "read", seen |-> tracker, sku |-> <<>>,
                                     with |-> Calls]
                      ELSE IF d \in Calls THEN [procs[d] EXCEPT !.with = @ \cup {c}]
                      ELSE procs[d]]
    /\ UNCHANGED <<tracker, issued, dirs, files, registry, templates, lastOp, epoch, tmp,
                   writer, session>>

\* lines 19-26: the tracker is read
CallRead(c) ==
    /\ procs[c].pc = "read"
    /\ procs' = Put(procs, c, [procs[c] EXCEPT !.pc = "open", !.seen = tracker])
    /\ UNCHANGED <<tracker, issued, dirs, files, registry, templates, lastOp, epoch, tmp,
                   writer, session>>

\* line 27: write_text opens the tracker for writing, which empties it
CallOpen(c) ==
    /\ procs[c].pc = "open"
    /\ tracker' = Truncated
    /\ procs' = Put(procs, c, [procs[c] EXCEPT !.pc = "write"])
    /\ UNCHANGED <<issued, dirs, files, registry, templates, lastOp, epoch, tmp, writer,
                   session>>

\* lines 27-30: the number is written and the SKU returned
CallWrite(c) ==
    /\ procs[c].pc = "write"
    /\ tracker' = TrackerWritten(procs[c].seen)
    /\ issued' = Append(issued, get_next_sku(procs[c].seen))
    /\ procs' = Put(procs, c, [procs[c] EXCEPT !.pc = "done",
                                               !.sku = get_next_sku(procs[c].seen)])
    /\ lastOp' = Outcome("get_next_sku", <<>>, TRUE, "", NoPath, get_next_sku(procs[c].seen))
    /\ UNCHANGED <<dirs, files, registry, templates, epoch, tmp, writer, session>>

CallersNext ==
    \/ CallBegin
    \/ \E c \in DOMAIN procs : CallRead(c)
    \/ \E c \in DOMAIN procs : CallOpen(c)
    \/ \E c \in DOMAIN procs : CallWrite(c)

SpecCallers == Start(NoFiles, AllMatch(NumMockups)) /\ [][CallersNext]_vars

\* C27: two calls of get_next_sku return the same SKU only if, from the first of
\* them to the second, some call was in progress at the same time as another; calls
\* of which each returned before the next began return SKUs that differ pairwise,
\* and leave the tracker at the number of calls made.
C27_SerializedCallsDiffer ==
    /\ \A c, d \in Returned :
          c < d /\ procs[c].sku = procs[d].sku =>
             \E e \in c..d : procs[e].with # {}
    /\ (Calls = {} /\ \A c \in Returned : procs[c].with = {}) =>
          /\ tracker = [state |-> "ok", last |-> Cardinality(Returned)] \/ Returned = {}
          /\ \A c \in Returned : procs[c].sku = FormatSku(c)

\* two calls whose reads both came before either write have both returned: they
\* returned the same SKU, and the tracker has advanced by one only
C27_Witness ==
    /\ Calls = {} /\ Returned = {1, 2}
    /\ procs[1].sku = procs[2].sku
    /\ tracker = [state |-> "ok", last |-> 1]

\* three calls, each returned before the next began: three SKUs
C27_WitnessSerial ==
    /\ Calls = {} /\ Cardinality(Returned) = MaxCalls
    /\ \A c \in Returned : procs[c].with = {}
    /\ Cardinality({procs[c].sku : c \in Returned}) = MaxCalls

-----------------------------------------------------------------------------
(* _update_master_paths run by several writers at once, one statement at a time.
   Every writer opens the same temporary path.  A writer holds the file it opened,
   whatever name that file has by now: procs[w].fd is "tmp" while the file is still
   the temporary file, "master" once another writer has renamed it over the
   registry, "gone" once it was replaced in turn. *)

MaxWriters == 2

Writing == {w \in DOMAIN procs : procs[w].pc \in {"open", "half", "dumped"}}

\* writer w puts content into the file it holds; every other writer that holds the
\* same file at one of the positions hit no longer has a file of its own: emptying
\* the file harms a writer that has written a part, writing into it also one that
\* has yet to write
WriteThrough(w, fd, content, rec, hit) ==
    /\ IF fd = "gone" THEN UNCHANGED <<registry, tmp>> ELSE PutFile(fd, content)
    /\ procs' = [v \in DOMAIN procs \cup {w} |->
                    IF v = w THEN rec
                    ELSE IF procs[v].pc \in hit /\ procs[v].fd = fd
                    THEN [procs[v] EXCEPT !.clean = FALSE]
                    ELSE procs[v]]

\* the registry is read, and tmp.open("w") makes or empties the temporary file
WriterOpen ==
    /\ Cardinality(DOMAIN procs) < MaxWriters
    /\ \E op \in {"analyze", "finalise"}, slug \in {<<"a">>, <<"b">>} :
          LET w == Cardinality(DOMAIN procs) + 1
              target == with_suffix_tmp("master")
          IN WriteThrough(w, target, Unfinished,
                 [pc |-> "open", fd |-> target, clean |-> TRUE,
                  data |-> NewData(op, slug, ReadRegistry(registry)),
                  overlap |-> Writing # {}], {"half"})
    /\ UNCHANGED <<tracker, issued, dirs, files, templates, lastOp, epoch, writer, session>>

\* json.dump has written a part of the document
WriterDumpPart(w) ==
    /\ procs[w].pc = "open"
    /\ WriteThrough(w, procs[w].fd, [state |-> "corrupt", data |-> procs[w].data],
                    [procs[w] EXCEPT !.pc = "half", !.overlap = @ \/ Writing # {w}],
                    {"open", "half"})
    /\ UNCHANGED <<tracker, issued, dirs, files, templates, lastOp, epoch, writer, session>>

\* the rest is written and the file closed: the document of w is whole if no other
\* writer wrote into the file since w opened it, or emptied it since w began to
\* write; if not, the bytes of two documents lie over each other, which may or may
\* not be a document
WriterDumpRest(w) ==
    /\ procs[w].pc = "half"
    /\ \E whole \in BOOLEAN :
          /\ procs[w].clean => whole
          /\ WriteThrough(w, procs[w].fd,
                          IF whole THEN Replaced(procs[w].data)
                          ELSE [state |-> "corrupt", data |-> procs[w].data],
                          [procs[w] EXCEPT !.pc = "dumped", !.overlap = @ \/ Writing # {w}],
                          {"open", "half"})
    /\ UNCHANGED <<tracker, issued, dirs, files, templates, lastOp, epoch, writer, session>>

\* tmp.replace(MASTER_ARTWORK_PATHS_FILE): the file now named tmp becomes the
\* registry; FileNotFoundError if another writer has renamed it away
WriterReplace(w) ==
    /\ procs[w].pc = "dumped"
    /\ LET target == with_suffix_tmp("master")
           there == FileOf(target).state # "absent"
       IN /\ IF target = "master" \/ ~there THEN UNCHANGED <<registry, tmp>>
             ELSE registry' = tmp /\ tmp' = NoFile
          /\ procs' = [v \in DOMAIN procs |->
                         IF v = w
                         THEN [procs[w] EXCEPT !.pc = IF there THEN "done" ELSE "failed",
                                               !.overlap = @ \/ Writing # {w}]
                         ELSE IF target = "master" \/ ~there THEN procs[v]
                         ELSE [procs[v] EXCEPT !.fd = IF @ = "tmp" THEN "master" ELSE "gone"]]
          /\ lastOp' = Outcome("registry", <<>>, there,
                               IF there THEN "" ELSE "FileNotFoundError", NoPath, <<>>)
    /\ UNCHANGED <<tracker, issued, dirs, files, templates, epoch, writer, session>>

WritersNext ==
    \/ WriterOpen
    \/ \E w \in DOMAIN procs : WriterDumpPart(w)
    \/ \E w \in DOMAIN procs : WriterDumpRest(w)
    \/ \E w \in DOMAIN procs : WriterReplace(w)

SpecWriters == RegistryInit /\ [][WritersNext]_vars

\* the registry holds a complete document: nothing yet, or all that one of the
\* writers wrote
CompleteRegistry ==
    \/ registry = NoFile
    \/ \E w \in DOMAIN procs : registry = Replaced(procs[w].data)

\* C28 as stated: in every interleaving of two registry updates, a reader sees at
\* any instant a complete registry document: the content before, or the complete
\* content written by one of the writers.
C28_NeverPartialConcurrently == CompleteRegistry

\* C28 as amended: as long as no writer has been between opening the temporary file
\* and renaming it while another was, a reader sees at any instant a complete registry
\* document, the content before or the complete content written by one of the
\* writers, and no rename fails.
C28_NeverPartialSerialized ==
    (\A w \in DOMAIN procs : ~procs[w].overlap) =>
        /\ CompleteRegistry
        /\ \A w \in DOMAIN procs : procs[w].pc # "failed"

\* two updates, the second begun after the first had renamed: the registry holds
\* the records of both
C28_Witness ==
    /\ DOMAIN procs = 1..MaxWriters
    /\ \A w \in DOMAIN procs : procs[w].pc = "done" /\ ~procs[w].overlap
    /\ registry.state = "ok" /\ Cardinality(DOMAIN registry.data) = 2

\* the first writer has renamed the temporary file while the second was writing
\* into it: the registry is a part of a document
C28_WitnessPartial ==
    /\ DOMAIN procs = {1, 2}
    /\ procs[1].pc = "done" /\ procs[2].pc = "half" /\ procs[2].fd = "master"
    /\ registry.state = "corrupt"

-----------------------------------------------------------------------------
(* Upload, delete, analyse, generate and finalise in any serialized order: a slug
   can be taken again once its unanalysed folder was deleted *)

ReuseNext == Upload \/ MockupDelete \/ Analyze \/ Generate \/ Finalise

SpecReuse == Start(NoFiles, AllMatch(NumMockups)) /\ [][ReuseNext]_vars

\* the slugs the registry marks as finalised
FinalisedSlugs ==
    { slug \in DOMAIN ReadRegistry(registry) :
        LET rec == ReadRegistry(registry)[slug]
        IN "status" \in DOMAIN rec /\ rec.status = "finalised" }

\* the artwork a recorded file was made from, 0 when the file is not there
ArtOf(p) == IF p \in DOMAIN files THEN files[p].art ELSE 0

\* C29: whenever the registry marks a slug as finalised, the finalised image, the
\* preview and the nine mockups recorded for the slug are all made from the artwork
\* that is in the processed stage for that slug, also when the slug was taken again
\* after its unanalysed folder was deleted.
C29_OneArtworkPerSlug ==
    \A slug \in FinalisedSlugs :
        LET rec == ReadRegistry(registry)[slug]
            current == ArtOf(processed_artwork_path(slug))
        IN /\ current # 0
           /\ ArtOf(rec.image) = current
           /\ ArtOf(rec.preview) = current
           /\ \A i \in 1..NumMockups : ArtOf(rec.mockups[i]) = current

\* a slug was finalised for the first time: everything recorded is of its artwork
C29_Witness ==
    /\ lastOp.op = "finalise" /\ lastOp.ok
    /\ lastOp.slug \in FinalisedSlugs
    /\ LET rec == ReadRegistry(registry)[lastOp.slug]
       IN \A p \in {rec.image, rec.preview} \cup Range(rec.mockups) :
             ArtOf(p) = ArtOf(processed_artwork_path(lastOp.slug))

-----------------------------------------------------------------------------
(* The validator run over the trees the pipeline makes *)

\* an empty tree with the project marker
PipelineInit == Start(One(MarkerPath, Content("file", 0, 0)), AllMatch(NumMockups))

PipelineNext == Upload \/ Analyze \/ Generate \/ Finalise \/ RunValidate

SpecPipeline == PipelineInit /\ [][PipelineNext]_vars

\* C30: validate returns the empty list for every tree that upload, analyze,
\* generate-mockups and finalise operations make from an empty tree with the
\* project marker.
C30_PipelineTreesAreClean == lastOp.op = "validate" => lastOp.ret = <<>>

\* validate has run over a tree with an uploaded artwork that was not analysed, and
\* returned the empty list
C30_Witness ==
    /\ lastOp.op = "validate" /\ lastOp.ret = <<>>
    /\ Folders("unanalysed") # {} /\ Folders("processed") = {}

====
